---- MODULE Spec2Model ----
(***************************************************************************)
(* A model of the two tools of aakritidhardubey/X_Scraper:                 *)
(*   ScrapeXTool._run     (tools/custom_scraper_tool.py)                   *)
(*   PDFWriterTool._run   (tools/pdf_write.py)                             *)
(* Python strings that the code takes apart (split, strip, replace) are    *)
(* sequences of one-character strings.  Python None is the record None.    *)
(* A mapping that keeps insertion order (dict) is a sequence of            *)
(* [key, val] records with pairwise distinct keys.                         *)
(***************************************************************************)
EXTENDS Integers, Sequences, FiniteSets, TLC

VARIABLES
    pc,                 \* position of ScrapeXTool._run: "idle", "loop", "done"
    usernames,          \* the usernames argument as passed
    tweet_count,        \* the tweet_count argument
    username_list,      \* local username_list (line 251-254)
    idx,                \* 1-based position of the for loop (line 275)
    users,              \* results['users'] (ordered mapping)
    total_tweets,       \* local total_tweets
    successful_scrapes, \* local successful_scrapes
    outcomes,           \* per loop iteration: which call raised, or "none"
    delays,             \* number of completed _random_delay calls
    result,             \* the value returned by _run (before json.dumps)
    pdf_pc,             \* "unloaded", "idle", or "returned" from PDFWriterTool._run
    REPORTLAB_AVAILABLE,\* the module-level flag of pdf_write (lines 19-35)
    clock,              \* datetime.now(), in seconds
    fs,                 \* the files on disk: location and which run wrote it
    build,              \* the latest PDFWriterTool._run call and what it did
    gen,                \* the latest call of a sample data generator and its result
    os_env,             \* os.environ as load_dotenv() leaves it (crew.py line 41)
    proc,               \* process start: "start", "tools", "crew", "ready", "exited"
    raised,             \* the exception that ended the process, or "none"
    created,            \* the tools, agents, tasks, crews and directories created
    flow,               \* the SentimentAnalysisFlow object, None before it is built
    kickoff,            \* the latest Crew handed to the runtime and how far it ran
    log                 \* the calls of the flow's operations and what they returned

scrapeVars == <<pc, usernames, tweet_count, username_list, idx, users,
                total_tweets, successful_scrapes, outcomes, delays, result>>

pdfVars == <<pdf_pc, REPORTLAB_AVAILABLE, clock, fs, build>>

genVars == <<gen>>

flowVars == <<os_env, proc, raised, created, flow, kickoff, log>>

vars == <<scrapeVars, pdfVars, genVars, flowVars>>

(***************************************************************************)
(* Bounds of the model.                                                    *)
(***************************************************************************)
MaxStrLen == 3        \* longest comma-separated usernames string
MaxUsers == 2         \* longest usernames list
MaxTweetCount == 11   \* largest tweet_count argument
MaxRnd == 1           \* the random source is sampled at 0..MaxRnd
MaxClock == 1         \* the clock runs from 0 to MaxClock
MaxEntries == 2       \* most entries of data['users'] in a report input
MaxGenCount == 2      \* largest count given to _generate_sample_tweets alone
MaxCalls == 2         \* most calls of the flow's operations in one process

(***************************************************************************)
(* Program constants.                                                      *)
(***************************************************************************)
TweetCap == 10        \* tweets[:10]
TextCap == 50         \* tweet.text[:50]

None == [none |-> TRUE]

Range(f) == {f[i] : i \in DOMAIN f}

Min(a, b) == IF a <= b THEN a ELSE b
Max(a, b) == IF a >= b THEN a ELSE b

(***************************************************************************)
(* str.split(','), str.strip() and str.replace('@', '') on character       *)
(* sequences.                                                              *)
(***************************************************************************)
RECURSIVE SplitAcc(_, _, _)
SplitAcc(s, cur, acc) ==
    IF s = <<>> THEN Append(acc, cur)
    ELSE IF Head(s) = "," THEN SplitAcc(Tail(s), <<>>, Append(acc, cur))
    ELSE SplitAcc(Tail(s), Append(cur, Head(s)), acc)

Split(s) == SplitAcc(s, <<>>, <<>>)

RECURSIVE LStrip(_)
LStrip(s) == IF s # <<>> /\ Head(s) = " " THEN LStrip(Tail(s)) ELSE s

RECURSIVE RStrip(_)
RStrip(s) ==
    IF s # <<>> /\ s[Len(s)] = " " THEN RStrip(SubSeq(s, 1, Len(s) - 1)) ELSE s

Strip(s) == RStrip(LStrip(s))

IsNotAt(c) == c # "@"

RemoveAt(s) == SelectSeq(s, IsNotAt)

(***************************************************************************)
(* str.title(): the first letter of every run of letters is upper-cased,   *)
(* the other letters of the run are lower-cased.                           *)
(***************************************************************************)
LowerLetters ==
    <<"a", "b", "c", "d", "e", "f", "g", "h", "i", "j", "k", "l", "m",
      "n", "o", "p", "q", "r", "s", "t", "u", "v", "w", "x", "y", "z">>

UpperLetters ==
    <<"A", "B", "C", "D", "E", "F", "G", "H", "I", "J", "K", "L", "M",
      "N", "O", "P", "Q", "R", "S", "T", "U", "V", "W", "X", "Y", "Z">>

IndexOf(letters, c) == CHOOSE i \in 1..Len(letters) : letters[i] = c

IsLower(c) == \E i \in 1..Len(LowerLetters) : LowerLetters[i] = c

IsUpper(c) == \E i \in 1..Len(UpperLetters) : UpperLetters[i] = c

IsLetter(c) == IsLower(c) \/ IsUpper(c)

Upper(c) == IF IsLower(c) THEN UpperLetters[IndexOf(LowerLetters, c)] ELSE c

Lower(c) == IF IsUpper(c) THEN LowerLetters[IndexOf(UpperLetters, c)] ELSE c

TitleFirstOnly(s) ==
    [i \in 1..Len(s) |-> IF i = 1 THEN Upper(s[i]) ELSE s[i]]

Title(s) ==
    [i \in 1..Len(s) |->
        IF i = 1 \/ ~IsLetter(s[i - 1]) THEN Upper(s[i]) ELSE Lower(s[i])]

(***************************************************************************)
(* Ordered mappings.                                                       *)
(***************************************************************************)
Keys(m) == {m[i].key : i \in 1..Len(m)}

Get(m, k) == (CHOOSE i \in 1..Len(m) : m[i].key = k)

Lookup(m, k) == m[Get(m, k)].val

PutAppend(m, k, v) == Append(m, [key |-> k, val |-> v])

Put(m, k, v) ==
    IF k \in Keys(m)
    THEN [m EXCEPT ![Get(m, k)] = [key |-> k, val |-> v]]
    ELSE Append(m, [key |-> k, val |-> v])

(***************************************************************************)
(* The literal tables of the generators and of the crew.                   *)
(***************************************************************************)
\* lines 99-105; {topic} is the replacement field of str.format
tweet_templates ==
    << <<"{topic}", " ", "i", "s", " ", "t", "h", "e", " ", "f", "u", "t", "u", "r", "e">>,
       <<"B", "u", "l", "l", "i", "s", "h", " ", "o", "n", " ", "{topic}">>,
       <<"B", "u", "i", "l", "d", "i", "n", "g", " ", "w", "i", "t", "h", " ", "{topic}">>,
       <<"{topic}", " ", "u", "p", "d", "a", "t", "e", " ", "c", "o", "m", "i", "n", "g">>,
       <<"L", "o", "v", "e", " ", "{topic}", " ", "c", "o", "m", "m", "u", "n", "i", "t", "y">> >>

\* lines 108-119
topic_themes ==
    << [key |-> <<"e", "l", "o", "n", "m", "u", "s", "k">>,
        val |-> << <<"T", "e", "s", "l", "a">>,
                   <<"S", "p", "a", "c", "e", "X">>,
                   <<"A", "I">>,
                   <<"M", "a", "r", "s">>,
                   <<"s", "u", "s", "t", "a", "i", "n", "a", "b", "l", "e", " ", "e", "n", "e", "r", "g", "y">>,
                   <<"n", "e", "u", "r", "a", "l", " ", "i", "n", "t", "e", "r", "f", "a", "c", "e", "s">> >>],
       [key |-> <<"n", "a", "v", "a", "l">>,
        val |-> << <<"s", "t", "a", "r", "t", "u", "p", "s">>,
                   <<"i", "n", "v", "e", "s", "t", "i", "n", "g">>,
                   <<"p", "h", "i", "l", "o", "s", "o", "p", "h", "y">>,
                   <<"w", "e", "a", "l", "t", "h", " ", "c", "r", "e", "a", "t", "i", "o", "n">>,
                   <<"h", "a", "p", "p", "i", "n", "e", "s", "s">> >>],
       [key |-> <<"c", "h", "a", "m", "a", "t", "h">>,
        val |-> << <<"v", "e", "n", "t", "u", "r", "e", " ", "c", "a", "p", "i", "t", "a", "l">>,
                   <<"S", "P", "A", "C", "s">>,
                   <<"t", "e", "c", "h", "n", "o", "l", "o", "g", "y">>,
                   <<"s", "o", "c", "i", "a", "l", " ", "m", "e", "d", "i", "a">>,
                   <<"i", "n", "v", "e", "s", "t", "i", "n", "g">> >>],
       [key |-> <<"g", "a", "r", "y", "v", "e", "e">>,
        val |-> << <<"m", "a", "r", "k", "e", "t", "i", "n", "g">>,
                   <<"e", "n", "t", "r", "e", "p", "r", "e", "n", "e", "u", "r", "s", "h", "i", "p">>,
                   <<"N", "F", "T", "s">>,
                   <<"s", "o", "c", "i", "a", "l", " ", "m", "e", "d", "i", "a">>,
                   <<"h", "u", "s", "t", "l", "e">> >>],
       [key |-> <<"b", "a", "l", "a", "j", "i", "s">>,
        val |-> << <<"c", "r", "y", "p", "t", "o">>,
                   <<"d", "e", "c", "e", "n", "t", "r", "a", "l", "i", "z", "a", "t", "i", "o", "n">>,
                   <<"n", "e", "t", "w", "o", "r", "k", " ", "s", "t", "a", "t", "e", "s">>,
                   <<"t", "e", "c", "h", "n", "o", "l", "o", "g", "y">>,
                   <<"B", "i", "t", "c", "o", "i", "n">> >>],
       [key |-> <<"c", "d", "i", "x", "o", "n">>,
        val |-> << <<"c", "r", "y", "p", "t", "o">>,
                   <<"w", "e", "b", "3">>,
                   <<"i", "n", "v", "e", "s", "t", "i", "n", "g">>,
                   <<"t", "e", "c", "h", "n", "o", "l", "o", "g", "y", " ", "t", "r", "e", "n", "d", "s">>,
                   <<"b", "l", "o", "c", "k", "c", "h", "a", "i", "n">> >>],
       [key |-> <<"a", "r", "o", "n", "v", "a", "n", "a", "m", "m", "e", "r", "s">>,
        val |-> << <<"A", "I">>,
                   <<"m", "a", "c", "h", "i", "n", "e", " ", "l", "e", "a", "r", "n", "i", "n", "g">>,
                   <<"t", "e", "c", "h", "n", "o", "l", "o", "g", "y">>,
                   <<"a", "u", "t", "o", "m", "a", "t", "i", "o", "n">>,
                   <<"f", "u", "t", "u", "r", "e">> >>],
       [key |-> <<"a", "a", "n", "t", "o", "n", "o", "p">>,
        val |-> << <<"B", "i", "t", "c", "o", "i", "n">>,
                   <<"c", "r", "y", "p", "t", "o", "c", "u", "r", "r", "e", "n", "c", "y">>,
                   <<"b", "l", "o", "c", "k", "c", "h", "a", "i", "n">>,
                   <<"d", "e", "c", "e", "n", "t", "r", "a", "l", "i", "z", "a", "t", "i", "o", "n">>,
                   <<"p", "r", "i", "v", "a", "c", "y">> >>],
       [key |-> <<"V", "i", "t", "a", "l", "i", "k", "B", "u", "t", "e", "r", "i", "n">>,
        val |-> << <<"E", "t", "h", "e", "r", "e", "u", "m">>,
                   <<"b", "l", "o", "c", "k", "c", "h", "a", "i", "n">>,
                   <<"c", "r", "y", "p", "t", "o", " ", "e", "c", "o", "n", "o", "m", "i", "c", "s">>,
                   <<"s", "c", "a", "l", "a", "b", "i", "l", "i", "t", "y">>,
                   <<"D", "e", "F", "i">> >>],
       [key |-> <<"s", "a", "t", "y", "a", "n", "a", "d", "e", "l", "l", "a">>,
        val |-> << <<"M", "i", "c", "r", "o", "s", "o", "f", "t">>,
                   <<"c", "l", "o", "u", "d", " ", "c", "o", "m", "p", "u", "t", "i", "n", "g">>,
                   <<"A", "I">>,
                   <<"d", "i", "g", "i", "t", "a", "l", " ", "t", "r", "a", "n", "s", "f", "o", "r", "m", "a", "t", "i", "o", "n">>,
                   <<"l", "e", "a", "d", "e", "r", "s", "h", "i", "p">> >>] >>

\* line 122: the topics of a username outside topic_themes
DefaultTopics ==
    << <<"t", "e", "c", "h", "n", "o", "l", "o", "g", "y">>,
       <<"i", "n", "n", "o", "v", "a", "t", "i", "o", "n">>,
       <<"b", "u", "s", "i", "n", "e", "s", "s">>,
       <<"f", "u", "t", "u", "r", "e">>,
       <<"A", "I">> >>

\* lines 170-211; a bio is never taken apart and stays one piece of text
user_profiles ==
    << [key |-> <<"e", "l", "o", "n", "m", "u", "s", "k">>,
        val |-> [display_name |-> <<"E", "l", "o", "n", " ", "M", "u", "s", "k">>,
                bio |-> <<"CEO of Tesla, SpaceX, and more. Building the future.">>,
                followers_count |-> 150000000,
                following_count |-> 500,
                tweet_count |-> 25000,
                verified |-> TRUE]],
       [key |-> <<"n", "a", "v", "a", "l">>,
        val |-> [display_name |-> <<"N", "a", "v", "a", "l">>,
                bio |-> <<"Entrepreneur, investor, and philosopher.">>,
                followers_count |-> 2000000,
                following_count |-> 100,
                tweet_count |-> 15000,
                verified |-> TRUE]],
       [key |-> <<"c", "h", "a", "m", "a", "t", "h">>,
        val |-> [display_name |-> <<"C", "h", "a", "m", "a", "t", "h", " ", "P", "a", "l", "i", "h", "a", "p", "i", "t", "i", "y", "a">>,
                bio |-> <<"Venture capitalist and entrepreneur.">>,
                followers_count |-> 1500000,
                following_count |-> 200,
                tweet_count |-> 12000,
                verified |-> TRUE]],
       [key |-> <<"g", "a", "r", "y", "v", "e", "e">>,
        val |-> [display_name |-> <<"G", "a", "r", "y", " ", "V", "a", "y", "n", "e", "r", "c", "h", "u", "k">>,
                bio |-> <<"Entrepreneur, CEO, investor, and content creator.">>,
                followers_count |-> 3000000,
                following_count |-> 300000,
                tweet_count |-> 200000,
                verified |-> TRUE]],
       [key |-> <<"b", "a", "l", "a", "j", "i", "s">>,
        val |-> [display_name |-> <<"B", "a", "l", "a", "j", "i", " ", "S", "r", "i", "n", "i", "v", "a", "s", "a", "n">>,
                bio |-> <<"Entrepreneur, investor, technologist.">>,
                followers_count |-> 800000,
                following_count |-> 1000,
                tweet_count |-> 20000,
                verified |-> TRUE]] >>

\* crew.py lines 95-98
TARGET_USERNAMES ==
    << <<"e", "l", "o", "n", "m", "u", "s", "k">>,
       <<"n", "a", "v", "a", "l">>,
       <<"c", "h", "a", "m", "a", "t", "h">>,
       <<"g", "a", "r", "y", "v", "e", "e">>,
       <<"b", "a", "l", "a", "j", "i", "s">>,
       <<"c", "d", "i", "x", "o", "n">>,
       <<"a", "r", "o", "n", "v", "a", "n", "a", "m", "m", "e", "r", "s">>,
       <<"a", "a", "n", "t", "o", "n", "o", "p">>,
       <<"V", "i", "t", "a", "l", "i", "k", "B", "u", "t", "e", "r", "i", "n">>,
       <<"s", "a", "t", "y", "a", "n", "a", "d", "e", "l", "l", "a">> >>

(***************************************************************************)
(* _generate_sample_tweets.  A text is the template and the topic it was   *)
(* formatted from, with its length in characters; random draws are taken   *)
(* from the sample rnd.                                                    *)
(***************************************************************************)
TemplateLen == <<14, 11, 14, 14, 15>>   \* characters of each template without {topic}

DefaultTopicLen == <<10, 10, 8, 6, 2>>  \* technology innovation business future AI

TweetText(tpl, topic) ==
    [tpl |-> tpl, topic |-> topic, len |-> TemplateLen[tpl] + DefaultTopicLen[topic]]

Slice(text, n) == [text EXCEPT !.len = Min(@, n)]

\* line 122
Topics(username) ==
    IF username \in Keys(topic_themes) THEN Lookup(topic_themes, username)
    ELSE DefaultTopics

\* random.choice(topics) for the draw k
TopicIndex(username, k) == ((k - 1) % Len(Topics(username))) + 1

\* line 129: template.format(topic=topic)
RECURSIVE Format(_, _)
Format(template, topic) ==
    IF template = <<>> THEN <<>>
    ELSE IF Head(template) = "{topic}" THEN topic \o Format(Tail(template), topic)
    ELSE <<Head(template)>> \o Format(Tail(template), topic)

TextChars(username, tpl, topic) == Format(tweet_templates[tpl], Topics(username)[topic])

TextOf(username, tpl, topic) ==
    IF username \in Keys(topic_themes)
    THEN [tpl |-> tpl, topic |-> topic, len |-> Len(TextChars(username, tpl, topic))]
    ELSE TweetText(tpl, topic)

\* str.split(): the runs of characters between white space
RECURSIVE WordsAcc(_, _, _)
WordsAcc(s, cur, acc) ==
    IF s = <<>> THEN (IF cur = <<>> THEN acc ELSE Append(acc, cur))
    ELSE IF Head(s) = " "
    THEN WordsAcc(Tail(s), <<>>, IF cur = <<>> THEN acc ELSE Append(acc, cur))
    ELSE WordsAcc(Tail(s), Append(cur, Head(s)), acc)

SplitWords(s) == WordsAcc(s, <<>>, <<>>)

StartsWith(word, mark) == word # <<>> /\ Head(word) = mark

TaggedAll(words, mark) == words

\* lines 144-145: [word[1:] for word in text.split() if word.startswith(mark)]
Tagged(words, mark) ==
    LET hit == SelectSeq(words, LAMBDA w : StartsWith(w, mark))
    IN  [i \in 1..Len(hit) |-> Tail(hit[i])]

Hashtags(text) == Tagged(SplitWords(text), "#")

Mentions(text) == Tagged(SplitWords(text), "@")

\* the value a random call returns: the ends of its range and, past two
\* samples, values in between
Sample(lo, hi, k) ==
    IF k = 0 THEN lo
    ELSE IF k >= MaxRnd THEN hi
    ELSE lo + ((hi - lo) * k) \div MaxRnd

Rate(num, den) == [num |-> num, den |-> den]

\* int(likes * rate)
Scaled(likes, rate) == (likes * rate.num) \div rate.den

BaseEngagement(i, rnd) == IF (i + rnd) % 2 = 0 THEN 100 ELSE 10000

Likes(i, rnd) ==
    BaseEngagement(i, rnd) + (IF i % 2 = 0 THEN 0 ELSE 2 * BaseEngagement(i, rnd))

\* the draws of one loop iteration (lines 127-140) that the sample rnd
\* stands for
DrawAt(i, rnd) ==
    [template |-> ((i + rnd) % 5) + 1,
     topic |-> ((2 * i + rnd) % 5) + 1,
     base_engagement |-> BaseEngagement(i, rnd),
     extra |-> Likes(i, rnd) - BaseEngagement(i, rnd),
     retweet_rate |-> IF rnd % 2 = 0 THEN Rate(1, 10) ELSE Rate(3, 10),
     reply_rate |-> IF rnd % 2 = 0 THEN Rate(5, 100) ELSE Rate(15, 100),
     view_factor |-> IF rnd % 2 = 0 THEN 10 ELSE 50,
     days_ago |-> IF rnd % 2 = 0 THEN 0 ELSE 30,
     hours_ago |-> IF rnd % 2 = 0 THEN 0 ELSE 23]

TweetLikes(d) == d.base_engagement + d.extra

RetweetsUnscaled(d) == TweetLikes(d) * d.retweet_rate.num

\* line 134
Retweets(d) == Scaled(TweetLikes(d), d.retweet_rate)

\* line 135
Replies(d) == Scaled(TweetLikes(d), d.reply_rate)

\* line 136
Views(d) == TweetLikes(d) * d.view_factor

\* line 141: datetime.now() - timedelta(days=days_ago, hours=hours_ago), in seconds
Timestamp(d, now) == now - (d.days_ago * 86400 + d.hours_ago * 3600)

\* lines 127-161: the tweet of iteration i built from the draws d at time now
Tweet(username, i, d, now) ==
    [tweet_id |-> [username |-> username, i |-> i, timestamp |-> Timestamp(d, now)],
     username |-> username,
     text |-> TextOf(username, d.template, TopicIndex(username, d.topic)),
     timestamp |-> Timestamp(d, now),
     likes |-> TweetLikes(d),
     retweets |-> Retweets(d),
     replies |-> Replies(d),
     views |-> Views(d),
     hashtags |-> Hashtags(TextChars(username, d.template, TopicIndex(username, d.topic))),
     mentions |-> Mentions(TextChars(username, d.template, TopicIndex(username, d.topic))),
     urls |-> <<>>]

\* the fields of the tweet of iteration i that _run reads (line 291)
SampleTweet(username, i, rnd) ==
    [username |-> username,
     text |-> TextOf(username, DrawAt(i, rnd).template,
                     TopicIndex(username, DrawAt(i, rnd).topic)),
     likes |-> TweetLikes(DrawAt(i, rnd))]

GenerateSampleTweetsCapped(username, count, rnd) ==
    [i \in 1..Min(Max(count, 0), TweetCap) |-> SampleTweet(username, i - 1, rnd)]

\* lines 123-163 as _run uses them: range(count) iterations
GenerateSampleTweets(username, count, rnd) ==
    [i \in 1..Max(count, 0) |-> SampleTweet(username, i - 1, rnd)]

\* the draws of the iterations of one call: the text draws move on with
\* the iteration
DrawShift(d, i) ==
    [d EXCEPT !.template = ((@ - 1 + i) % 5) + 1, !.topic = @ + 2 * i]

\* lines 123-163 with the draws d of the first iteration
SampleTweets(username, count, d, now) ==
    [i \in 1..Max(count, 0) |-> Tweet(username, i - 1, DrawShift(d, i - 1), now)]

(***************************************************************************)
(* _generate_sample_user_data.                                             *)
(***************************************************************************)
\* lines 214-221: the default handed to user_profiles.get
FallbackProfile(username, d) ==
    [display_name |-> Title(username),
     bio |-> <<"Content creator and thought leader @">> \o username,
     followers_count |-> d.followers_count,
     following_count |-> d.following_count,
     tweet_count |-> d.tweet_count,
     verified |-> d.verified]

ProfileAlwaysDrawn(username, d) == FallbackProfile(username, d)

Profile(username, d) ==
    IF username \in Keys(user_profiles) THEN Lookup(user_profiles, username)
    ELSE FallbackProfile(username, d)

\* line 223
UserData(username, d) ==
    [username |-> username,
     display_name |-> Profile(username, d).display_name,
     bio |-> Profile(username, d).bio,
     followers_count |-> Profile(username, d).followers_count,
     following_count |-> Profile(username, d).following_count,
     tweet_count |-> Profile(username, d).tweet_count,
     verified |-> Profile(username, d).verified]

\* the draws of lines 217-220 that the sample rnd stands for
UserDrawAt(rnd) ==
    [followers_count |-> IF rnd % 2 = 0 THEN 10000 ELSE 1000000,
     following_count |-> IF rnd % 2 = 0 THEN 100 ELSE 5000,
     tweet_count |-> IF rnd % 2 = 0 THEN 1000 ELSE 50000,
     verified |-> rnd % 2 = 0]

GenerateSampleUserData(username, rnd) == UserData(username, UserDrawAt(rnd))

(***************************************************************************)
(* The entries _run stores in results['users'].                            *)
(***************************************************************************)
ReducedTweet(tweet) == [text |-> Slice(tweet.text, TextCap), likes |-> tweet.likes]

TruncateNone(tweets) == tweets

Truncate(tweets) == SubSeq(tweets, 1, Min(Len(tweets), TweetCap))

ReportedTweetCount(tweets) == Min(Len(tweets), TweetCap)

SuccessEntryFullInfo(user_data, tweets) ==
    [user_info |-> [username |-> user_data.username,
                    display_name |-> user_data.display_name,
                    followers_count |-> user_data.followers_count,
                    following_count |-> user_data.following_count,
                    bio |-> user_data.bio],
     tweets |-> [i \in 1..Len(Truncate(tweets)) |-> ReducedTweet(Truncate(tweets)[i])],
     tweet_count |-> ReportedTweetCount(tweets),
     scrape_success |-> TRUE]

\* lines 284-296
SuccessEntry(user_data, tweets) ==
    [user_info |-> [username |-> user_data.username,
                    display_name |-> user_data.display_name,
                    followers_count |-> user_data.followers_count],
     tweets |-> [i \in 1..Len(Truncate(tweets)) |-> ReducedTweet(Truncate(tweets)[i])],
     tweet_count |-> ReportedTweetCount(tweets),
     scrape_success |-> TRUE]

FailureEntry(e) ==
    [user_info |-> None,
     tweets |-> <<>>,
     tweet_count |-> 0,
     scrape_success |-> FALSE,
     error |-> e]

\* lines 284-296 and 309-315: the two stores into results['users'].
StoreSuccess(m, username, user_data, tweets) ==
    Put(m, username, SuccessEntry(user_data, tweets))

StoreFailureOnly(m, username, e) == <<[key |-> username, val |-> FailureEntry(e)]>>

StoreFailure(m, username, e) == Put(m, username, FailureEntry(e))

(***************************************************************************)
(* The summary (lines 318-326).  Python's true division raises on a zero   *)
(* divisor; a quotient is kept as numerator and denominator.               *)
(***************************************************************************)
ZeroDivisionError == [raised |-> "ZeroDivisionError"]

Zero == [num |-> 0, den |-> 1]

Quot(a, b) == IF b = 0 THEN ZeroDivisionError ELSE [num |-> a, den |-> b]

SuccessRateUnguarded(succ, list) == Quot(succ, Len(list))

SuccessRate(succ, list) == IF list # <<>> THEN Quot(succ, Len(list)) ELSE Zero

AverageTweets(total, succ) == IF succ > 0 THEN Quot(total, succ) ELSE Zero

Summary(total, succ, list) ==
    [total_tweets_collected |-> total,
     successful_scrapes |-> succ,
     failed_scrapes |-> Len(list) - succ,
     success_rate |-> SuccessRate(succ, list),
     average_tweets_per_user |-> AverageTweets(total, succ)]

SummaryRaises(s) ==
    \/ s.success_rate = ZeroDivisionError
    \/ s.average_tweets_per_user = ZeroDivisionError

ErrorResultBare(msg) == [kind |-> "error", error |-> msg]

\* lines 333-341: the object the outer handler returns
ErrorResult(msg) ==
    [kind |-> "error", error |-> msg, timestamp |-> clock, success |-> FALSE]

Results(list, count, u, s) ==
    [kind |-> "results",
     scrape_metadata |-> [usernames_requested |-> list,
                          tweets_per_user |-> count,
                          total_users |-> Len(list)],
     users |-> u,
     summary |-> s]

(***************************************************************************)
(* Input normalisation (lines 251-254).                                    *)
(***************************************************************************)
LStripAt(s) == IF s # <<>> /\ Head(s) = "@" THEN Tail(s) ELSE s

NormalizeStringLeading(chars) ==
    [i \in 1..Len(Split(chars)) |-> LStripAt(Strip(Split(chars)[i]))]

NormalizeString(chars) ==
    [i \in 1..Len(Split(chars)) |-> RemoveAt(Strip(Split(chars)[i]))]

Normalize(u) == IF u.kind = "str" THEN NormalizeString(u.chars) ELSE u.items

(***************************************************************************)
(* The arguments _run is called with.                                      *)
(***************************************************************************)
Alphabet == {"a", "@", " ", ","}

Handles == {<<"a">>, <<"a", "a">>, <<"@", "a">>, <<" ", "a">>}

SeqsUpTo(S, n) == UNION {[1..k -> S] : k \in 0..n}

StrInput(chars) == [kind |-> "str", chars |-> chars, items |-> <<>>]

ListInput(items) == [kind |-> "list", chars |-> <<>>, items |-> items]

OtherInput == [kind |-> "other", chars |-> <<>>, items |-> <<>>]

UsernamesInputs ==
    {StrInput(c) : c \in SeqsUpTo(Alphabet, MaxStrLen)}
        \cup {ListInput(l) : l \in SeqsUpTo(Handles, MaxUsers)}
        \cup {OtherInput}

TweetCounts == {-1, 0, 1, MaxTweetCount - 1, MaxTweetCount}

Faults == {"none", "user_data", "tweets", "delay"}

(***************************************************************************)
(* pdf_write.py.  A path is a sequence of segments; a segment is a name    *)
(* and an extension, and the timestamp a default filename carries.         *)
(***************************************************************************)
Absent == [absent |-> TRUE]

Malformed == [malformed |-> TRUE]

GetOr(d, k, default) == IF k \in DOMAIN d THEN d[k] ELSE default

Seg(base, ext) == [base |-> base, ts |-> -1, ext |-> ext]

DotDot == Seg("..", "")

ReportsDir == <<Seg("outputs", ""), Seg("reports", "")>>

ChartsDir == <<Seg("outputs", ""), Seg("charts", "")>>

Dirs == {<<>>, <<Seg("outputs", "")>>, ReportsDir, ChartsDir}

RECURSIVE ResolveAcc(_, _)
ResolveAcc(segs, acc) ==
    IF segs = <<>> THEN acc
    ELSE IF Head(segs) = DotDot /\ acc # <<>> /\ acc[Len(acc)] # DotDot
         THEN ResolveAcc(Tail(segs), SubSeq(acc, 1, Len(acc) - 1))
         ELSE ResolveAcc(Tail(segs), Append(acc, Head(segs)))

\* the location on disk a relative path names
Resolve(path) == ResolveAcc(path, <<>>)

\* open(path, 'wb') succeeds: the parent directory exists, the location is
\* no directory, and the disk takes the write
CanWrite(path, diskFault) ==
    LET loc == Resolve(path)
    IN  /\ ~diskFault
        /\ loc # <<>>
        /\ loc \notin Dirs
        /\ SubSeq(loc, 1, Len(loc) - 1) \in Dirs

(***************************************************************************)
(* datetime.now().strftime("%Y%m%d_%H%M%S") (line 508).  The clock counts   *)
(* the seconds since Epoch, the last second of a year, so that the first    *)
(* tick carries into every field.                                           *)
(***************************************************************************)
Epoch == [year |-> 2025, month |-> 12, day |-> 31, hour |-> 23, minute |-> 59, second |-> 59]

IsLeap(y) == (y % 4 = 0 /\ y % 100 # 0) \/ y % 400 = 0

DaysInMonth(y, m) ==
    IF m = 2 THEN (IF IsLeap(y) THEN 29 ELSE 28)
    ELSE IF m \in {4, 6, 9, 11} THEN 30 ELSE 31

RECURSIVE AddDays(_, _, _, _)
AddDays(y, m, d, n) ==
    IF n = 0 THEN [year |-> y, month |-> m, day |-> d]
    ELSE IF d < DaysInMonth(y, m) THEN AddDays(y, m, d + 1, n - 1)
    ELSE IF m < 12 THEN AddDays(y, m + 1, 1, n - 1)
    ELSE AddDays(y + 1, 1, 1, n - 1)

DateTime(now) ==
    LET secs == Epoch.hour * 3600 + Epoch.minute * 60 + Epoch.second + now
        date == AddDays(Epoch.year, Epoch.month, Epoch.day, secs \div 86400)
    IN  [year |-> date.year, month |-> date.month, day |-> date.day,
         hour |-> (secs % 86400) \div 3600,
         minute |-> (secs % 3600) \div 60,
         second |-> secs % 60]

Digit(n) == <<"0", "1", "2", "3", "4", "5", "6", "7", "8", "9">>[n + 1]

RECURSIVE Digits(_)
Digits(n) == IF n < 10 THEN <<Digit(n)>> ELSE Append(Digits(n \div 10), Digit(n % 10))

PadNone(n, width) == Digits(n)

\* %m, %d, %H, %M, %S and %Y: decimal, filled with zeros up to the width
RECURSIVE Pad(_, _)
Pad(n, width) ==
    IF Len(Digits(n)) >= width THEN Digits(n)
    ELSE <<"0">> \o Pad(n, width - 1)

Strftime(dt) ==
    Pad(dt.year, 4) \o Pad(dt.month, 2) \o Pad(dt.day, 2) \o <<"_">>
        \o Pad(dt.hour, 2) \o Pad(dt.minute, 2) \o Pad(dt.second, 2)

\* lines 507-509
DefaultFilename(now) == <<[base |-> "report_", ts |-> now, ext |-> "pdf"]>>

Falsy(fn) == fn.kind = "none" \/ (fn.kind = "str" /\ fn.segs = <<>>)

OutputFilename(fn, now) ==
    IF Falsy(fn) THEN [kind |-> "str", segs |-> DefaultFilename(now)] ELSE fn

\* line 511: os.path.join raises TypeError on a component that is no string
JoinRaises(fn) == fn.kind = "nonstr"

OutputPath(fn) == ReportsDir \o fn.segs

ValidDataTypeOnly(data) == data.type = "dict"

\* line 504
ValidData(data) ==
    data.type = "dict"
        /\ ~(data.summary = Absent /\ data.users = Absent /\ ~data.extra)

AllEntries(data) ==
    IF data.users \in {Absent, Malformed} THEN <<>> ELSE data.users.kv

\* lines 309-311, 442-444
SuccessfulEntries(data) ==
    IF data.users \in {Absent, Malformed} THEN <<>>
    ELSE SelectSeq(data.users.kv, LAMBDA e : GetOr(e.val, "scrape_success", FALSE))

\* lines 251-258, 407-424: summary_data.get on a value that is no mapping raises
SummaryRaisesInReport(data) == data.summary = Malformed

\* lines 309-325, 442-455: .items() on a users value that is no mapping, and
\* .get on a user_info that is None, raise
UserSectionsRaise(data) ==
    \/ data.users = Malformed
    \/ \E i \in 1..Len(SuccessfulEntries(data)) :
           GetOr(SuccessfulEntries(data)[i].val, "user_info", <<>>) = None

UserSection(e) ==
    LET user_info == GetOr(e.val, "user_info", <<>>)
    IN  [page |-> "user",
         username |-> e.key,
         display_name |-> GetOr(user_info, "display_name", e.key),
         followers |-> GetOr(user_info, "followers_count", 0),
         following |-> GetOr(user_info, "following_count", 0),
         bio |-> GetOr(user_info, "bio", <<"N/A">>),
         tweets |-> GetOr(e.val, "tweet_count", 0)]

UserSections(data) ==
    [i \in 1..Len(SuccessfulEntries(data)) |-> UserSection(SuccessfulEntries(data)[i])]

Page(kind) == [page |-> kind]

SentimentChartPath == Append(ChartsDir, Seg("sentiment_overview", "png"))

FinancialChartPath == Append(ChartsDir, Seg("financial_overview", "png"))

\* lines 77-169: the path of the image, or None when anything raised
\* (users that is no mapping, a successful entry without 'tweets', savefig)
CreateSentimentChartRaising(data, diskFault) ==
    IF \/ data.users = Malformed
       \/ \E i \in 1..Len(SuccessfulEntries(data)) :
              "tweets" \notin DOMAIN SuccessfulEntries(data)[i].val
       \/ ~CanWrite(SentimentChartPath, diskFault)
    THEN [raised |-> "Exception"]
    ELSE [path |-> SentimentChartPath]

CreateSentimentChart(data, diskFault) ==
    IF \/ data.users = Malformed
       \/ \E i \in 1..Len(SuccessfulEntries(data)) :
              "tweets" \notin DOMAIN SuccessfulEntries(data)[i].val
       \/ ~CanWrite(SentimentChartPath, diskFault)
    THEN None
    ELSE [path |-> SentimentChartPath]

\* lines 171-235
CreateFinancialChart(data, diskFault) ==
    IF ~CanWrite(FinancialChartPath, diskFault)
    THEN None
    ELSE [path |-> FinancialChartPath]

ChartRaised(c) == "raised" \in DOMAIN c

ChartFile(c) == IF "path" \in DOMAIN c THEN {Resolve(c.path)} ELSE {}

ChartPage(c, kind) == IF "path" \in DOMAIN c THEN <<Page(kind)>> ELSE <<>>

BackendResult(name, ok, charts, pages, wrote) ==
    [backend |-> name, ok |-> ok, charts |-> charts, pages |-> pages, wrote |-> wrote]

\* lines 237-366.  env.pdf, env.sent, env.fin: the disk refuses that file;
\* env.partial: a build that fails after PdfPages opened leaves its file.
GenerateSimplePdf(data, output_path, env) ==
    LET sent == CreateSentimentChart(data, env.sent)
        fin == CreateFinancialChart(data, env.fin)
        left == IF env.partial THEN {Resolve(output_path)} ELSE {}
    IN  IF ~CanWrite(output_path, env.pdf)
        THEN BackendResult("simple", FALSE, <<>>, <<>>, {})
        ELSE IF SummaryRaisesInReport(data)
        THEN BackendResult("simple", FALSE, <<>>, <<>>, left)
        ELSE IF ChartRaised(sent)
        THEN BackendResult("simple", FALSE, <<[chart |-> "sentiment", result |-> sent]>>,
                           <<Page("title")>>, left)
        ELSE IF ChartRaised(fin)
        THEN BackendResult("simple", FALSE,
                           <<[chart |-> "sentiment", result |-> sent],
                             [chart |-> "financial", result |-> fin]>>,
                           <<Page("title")>> \o ChartPage(sent, "sentiment"),
                           left \cup ChartFile(sent))
        ELSE IF UserSectionsRaise(data)
        THEN BackendResult("simple", FALSE,
                           <<[chart |-> "sentiment", result |-> sent],
                             [chart |-> "financial", result |-> fin]>>,
                           <<Page("title")>> \o ChartPage(sent, "sentiment")
                               \o ChartPage(fin, "financial"),
                           left \cup ChartFile(sent) \cup ChartFile(fin))
        ELSE BackendResult("simple", TRUE,
                           <<[chart |-> "sentiment", result |-> sent],
                             [chart |-> "financial", result |-> fin]>>,
                           <<Page("title")>> \o ChartPage(sent, "sentiment")
                               \o ChartPage(fin, "financial") \o UserSections(data),
                           {Resolve(output_path)} \cup ChartFile(sent) \cup ChartFile(fin))

\* lines 368-489: the story is built in memory and doc.build writes it
GenerateReportlabPdf(data, output_path, env) ==
    IF \/ SummaryRaisesInReport(data)
       \/ UserSectionsRaise(data)
       \/ ~CanWrite(output_path, env.pdf)
    THEN BackendResult("reportlab", FALSE, <<>>, <<>>, {})
    ELSE BackendResult("reportlab", TRUE, <<>>,
                       <<Page("title")>> \o UserSections(data),
                       {Resolve(output_path)})

SelectBackendWithFallback(flag, data, output_path, env) ==
    IF flag /\ GenerateReportlabPdf(data, output_path, env).ok
    THEN GenerateReportlabPdf(data, output_path, env)
    ELSE GenerateSimplePdf(data, output_path, env)

\* lines 515-518
SelectBackend(flag, data, output_path, env) ==
    IF flag
    THEN GenerateReportlabPdf(data, output_path, env)
    ELSE GenerateSimplePdf(data, output_path, env)

Message(kind, path) == [kind |-> kind, path |-> path]

\* the text of a path segment, of a path and of a returned message
SegChars(seg) ==
    <<seg.base>> \o (IF seg.ts = -1 THEN <<>> ELSE Strftime(DateTime(seg.ts)))
        \o (IF seg.ext = "" THEN <<>> ELSE <<".", seg.ext>>)

RECURSIVE PathChars(_)
PathChars(path) ==
    IF path = <<>> THEN <<>>
    ELSE IF Len(path) = 1 THEN SegChars(path[1])
    ELSE SegChars(path[1]) \o <<"/">> \o PathChars(Tail(path))

MessageChars(msg) ==
    IF msg.kind = "success"
    THEN <<"PDF report successfully generated at: ">> \o PathChars(msg.path)
    ELSE IF msg.kind = "failed"
    THEN <<"Failed to generate PDF report. Check logs for details. (Path: ">>
             \o PathChars(msg.path) \o <<")">>
    ELSE <<"Error: Invalid data provided for PDF generation.">>

FinalMessageSuccess(success, output_path) == Message("success", output_path)

\* lines 520-523: the backend's boolean and the path become the message
FinalMessage(success, output_path) ==
    Message(IF success THEN "success" ELSE "failed", output_path)

\* lines 491-526: everything one call of PDFWriterTool._run does
RunPdf(data, output_filename, now, flag, env) ==
    LET fn == OutputFilename(output_filename, now)
        path == OutputPath(fn)
        b == SelectBackend(flag, data, path, env)
        call == [data |-> data, output_filename |-> output_filename, now |-> now]
    IN  IF ~ValidData(data)
        THEN [call |-> call, validated |-> FALSE, raised |-> "none",
              returned |-> Message("invalid", <<>>),
              backends |-> <<>>, wrote |-> {}]
        ELSE IF JoinRaises(fn)
        THEN [call |-> call, validated |-> TRUE, raised |-> "TypeError",
              returned |-> None,
              backends |-> <<>>, wrote |-> {}]
        ELSE [call |-> call, validated |-> TRUE, raised |-> "none",
              returned |-> FinalMessage(b.ok, path),
              backends |-> <<b>>, wrote |-> b.wrote]

(***************************************************************************)
(* The arguments PDFWriterTool._run is called with.                        *)
(***************************************************************************)
SampleSummary ==
    [successful_scrapes |-> 1,
     total_tweets_collected |-> 5,
     success_rate |-> [num |-> 1, den |-> 1],
     average_tweets_per_user |-> [num |-> 5, den |-> 1]]

FullInfo ==
    [display_name |-> <<"A">>, followers_count |-> 15000,
     following_count |-> 500, bio |-> <<"bio">>]

SampleEntries ==
    { [scrape_success |-> TRUE, tweet_count |-> 2, user_info |-> FullInfo,
       tweets |-> <<"t1", "t2">>],
      [scrape_success |-> TRUE, tweet_count |-> 2, user_info |-> FullInfo],
      [scrape_success |-> TRUE, tweet_count |-> 0, user_info |-> None, tweets |-> <<>>],
      [reason |-> "private"],
      FailureEntry("tweets") }

EntryNames == <<<<"a">>, <<"a", "a">>, <<"a", "a", "a">>>>

\* a mapping of several entries mixes a complete success entry and the
\* failure entry of the scraper
SeveralEntries ==
    { [scrape_success |-> TRUE, tweet_count |-> 2, user_info |-> FullInfo,
       tweets |-> <<"t1", "t2">>],
      FailureEntry("tweets") }

EntriesOf(n) == IF n <= 1 THEN SampleEntries ELSE SeveralEntries

UsersValues ==
    {Absent, Malformed}
        \cup UNION { { [type |-> "dict",
                        kv |-> [i \in 1..n |-> [key |-> EntryNames[i], val |-> f[i]]]] :
                           f \in [1..n -> EntriesOf(n)] } : n \in 0..MaxEntries }

\* extra: the mapping holds a key other than 'summary' and 'users'
ReportInputs ==
    { [type |-> "dict", summary |-> s, users |-> u, extra |-> FALSE] :
          s \in {Absent, Malformed, SampleSummary}, u \in UsersValues }
        \cup { [type |-> "dict", summary |-> Absent, users |-> Absent, extra |-> TRUE],
               [type |-> "other", summary |-> Absent, users |-> Absent, extra |-> FALSE] }

OutputFilenames ==
    { [kind |-> "none", segs |-> <<>>],
      [kind |-> "nonstr", segs |-> <<>>],
      [kind |-> "str", segs |-> <<>>],
      [kind |-> "str", segs |-> <<Seg("r", "pdf")>>],
      [kind |-> "str", segs |-> <<Seg("r", "")>>],
      [kind |-> "str", segs |-> <<DotDot, Seg("r", "pdf")>>],
      [kind |-> "str", segs |-> <<Seg("nodir", ""), Seg("r", "pdf")>>] }

\* the faults the selected backend can meet: the ReportLab backend writes
\* one file, when the story is complete
Envs(flag) ==
    IF flag
    THEN [pdf : BOOLEAN, sent : {FALSE}, fin : {FALSE}, partial : {FALSE}]
    ELSE [pdf : BOOLEAN, sent : BOOLEAN, fin : BOOLEAN, partial : BOOLEAN]

(***************************************************************************)
(* ScrapeXTool._run                                                        *)
(***************************************************************************)
InitScrape ==
    /\ pc = "idle"
    /\ usernames = None
    /\ tweet_count = 0
    /\ username_list = <<>>
    /\ idx = 0
    /\ users = <<>>
    /\ total_tweets = 0
    /\ successful_scrapes = 0
    /\ outcomes = <<>>
    /\ delays = 0
    /\ result = None

\* files an earlier process left under outputs/ (gen 0); this process
\* writes gen 1
StaleFiles ==
    { [loc |-> Append(ReportsDir, Seg("r", "pdf")), gen |-> 0],
      [loc |-> SentimentChartPath, gen |-> 0] }

WriteFiles(files, locs) ==
    {f \in files : f.loc \notin locs} \cup {[loc |-> l, gen |-> 1] : l \in locs}

InitPdf ==
    /\ pdf_pc = "unloaded"
    /\ REPORTLAB_AVAILABLE = FALSE
    /\ clock = 0
    /\ fs \in {{}, StaleFiles}
    /\ build = None

\* lines 249-272: normalise the input and set up the result container;
\* len() of a value that is neither a string nor a list raises into the
\* outer handler (lines 333-341).
Call(u, n) ==
    /\ pc = "idle"
    /\ usernames' = u
    /\ tweet_count' = n
    /\ IF u.kind = "other"
       THEN /\ pc' = "done"
            /\ result' = ErrorResult("TypeError")
            /\ UNCHANGED <<username_list, idx>>
       ELSE /\ pc' = "loop"
            /\ username_list' = Normalize(u)
            /\ idx' = 1
            /\ UNCHANGED result
    /\ UNCHANGED <<users, total_tweets, successful_scrapes, outcomes, delays>>
    /\ UNCHANGED pdfVars
    /\ UNCHANGED genVars
    /\ UNCHANGED flowVars

\* lines 275-315: one iteration of the for loop, the try body and its
\* handler.  fault names the call of the try body that raises.
ProcessUser(fault, rnd) ==
    /\ pc = "loop"
    /\ idx <= Len(username_list)
    /\ LET username == username_list[idx]
           user_data == GenerateSampleUserData(username, rnd)
           tweets == GenerateSampleTweets(username, tweet_count, rnd)
           stored == fault \in {"none", "delay"}
       IN  /\ users' = IF fault = "none"
                       THEN StoreSuccess(users, username, user_data, tweets)
                       ELSE StoreFailure(
                                IF stored
                                THEN StoreSuccess(users, username, user_data, tweets)
                                ELSE users,
                                username, fault)
           /\ total_tweets' = IF stored THEN total_tweets + Len(tweets) ELSE total_tweets
           /\ successful_scrapes' =
                  IF stored THEN successful_scrapes + 1 ELSE successful_scrapes
           /\ delays' = IF fault = "none" THEN delays + 1 ELSE delays
    /\ outcomes' = Append(outcomes, fault)
    /\ idx' = idx + 1
    /\ UNCHANGED <<pc, usernames, tweet_count, username_list, result>>
    /\ UNCHANGED pdfVars
    /\ UNCHANGED genVars
    /\ UNCHANGED flowVars

\* lines 317-341: the summary and the returned value.
Finish ==
    /\ pc = "loop"
    /\ idx > Len(username_list)
    /\ pc' = "done"
    /\ LET s == Summary(total_tweets, successful_scrapes, username_list)
       IN  result' = IF SummaryRaises(s)
                     THEN ErrorResult("ZeroDivisionError")
                     ELSE Results(username_list, tweet_count, users, s)
    /\ UNCHANGED <<usernames, tweet_count, username_list, idx, users,
                   total_tweets, successful_scrapes, outcomes, delays>>
    /\ UNCHANGED pdfVars
    /\ UNCHANGED genVars
    /\ UNCHANGED flowVars

Next ==
    \/ pc = "idle" /\ \E u \in UsernamesInputs, n \in TweetCounts : Call(u, n)
    \/ pc = "loop" /\ \E fault \in Faults, rnd \in 0..MaxRnd : ProcessUser(fault, rnd)
    \/ Finish

InitGen == gen = None

\* the process before crew.py is imported: nothing read from the
\* environment, nothing created
Unset == "<unset>"

EmptyEnv ==
    [PROVIDER |-> Unset, GROQ_API_KEY |-> Unset, OPENAI_API_KEY |-> Unset,
     MODEL |-> Unset, OPENAI_MODEL |-> Unset]

InitFlow ==
    /\ os_env = EmptyEnv
    /\ proc = "start"
    /\ raised = "none"
    /\ created = {}
    /\ flow = None
    /\ kickoff = None
    /\ log = <<>>

Init == InitScrape /\ InitPdf /\ InitGen /\ InitFlow /\ fs = {}

Spec == Init /\ [][Next]_vars

(***************************************************************************)
(* pdf_write: module load, the clock, and PDFWriterTool._run               *)
(***************************************************************************)
\* lines 19-35: the flag is False unless the ReportLab imports succeed
LoadModule(importable) ==
    /\ pdf_pc = "unloaded"
    /\ pdf_pc' = "idle"
    /\ REPORTLAB_AVAILABLE' = importable
    /\ UNCHANGED <<clock, fs, build>>
    /\ UNCHANGED scrapeVars
    /\ UNCHANGED genVars
    /\ UNCHANGED flowVars

Tick ==
    /\ clock < MaxClock
    /\ clock' = clock + 1
    /\ UNCHANGED <<pdf_pc, REPORTLAB_AVAILABLE, fs, build>>
    /\ UNCHANGED scrapeVars
    /\ UNCHANGED genVars
    /\ UNCHANGED flowVars

\* lines 491-526: one call of PDFWriterTool._run
Run(data, output_filename, env) ==
    /\ pdf_pc = "idle"
    /\ pdf_pc' = "returned"
    /\ build' = RunPdf(data, output_filename, clock, REPORTLAB_AVAILABLE, env)
    /\ fs' = WriteFiles(fs, build'.wrote)
    /\ UNCHANGED <<REPORTLAB_AVAILABLE, clock>>
    /\ UNCHANGED scrapeVars
    /\ UNCHANGED genVars
    /\ UNCHANGED flowVars

NextPdf ==
    \/ \E importable \in BOOLEAN : LoadModule(importable)
    \/ Tick
    \/ pdf_pc = "idle" /\
           \E data \in ReportInputs, fn \in OutputFilenames, env \in Envs(REPORTLAB_AVAILABLE) :
               Run(data, fn, env)

InitWithDisk == InitScrape /\ InitPdf /\ InitGen /\ InitFlow

SpecPdf == InitWithDisk /\ [][NextPdf]_vars

(***************************************************************************)
(* The sample data generators called on their own.                         *)
(***************************************************************************)
UnknownNames == {<<"a">>, <<"a", "B">>, <<"r", "_", "h", "1", "x">>}

GenNames ==
    {TARGET_USERNAMES[i] : i \in 1..Len(TARGET_USERNAMES)}
        \cup Keys(topic_themes) \cup Keys(user_profiles) \cup UnknownNames

\* lines 217-220
UserDraws ==
    { [followers_count |-> Sample(10000, 1000000, a),
       following_count |-> Sample(100, 5000, b),
       tweet_count |-> Sample(1000, 50000, c),
       verified |-> v] : a \in 0..MaxRnd, b \in 0..MaxRnd, c \in 0..MaxRnd, v \in BOOLEAN }

\* lines 132-136
EngagementDraws ==
    { [base_engagement |-> Sample(100, 10000, a),
       extra |-> Sample(0, 2 * Sample(100, 10000, a), b),
       retweet_rate |-> Rate(Sample(10, 30, c), 100),
       reply_rate |-> Rate(Sample(5, 15, e), 100),
       view_factor |-> Sample(10, 50, f)] :
          a \in 0..MaxRnd, b \in 0..MaxRnd, c \in 0..MaxRnd, e \in 0..MaxRnd,
          f \in 0..MaxRnd }

\* lines 139-140
TimeDraws ==
    { [days_ago |-> Sample(0, 30, a), hours_ago |-> Sample(0, 23, b)] :
          a \in 0..MaxRnd, b \in 0..MaxRnd }

\* lines 127-128
TextDraws == { [template |-> t, topic |-> k] : t \in 1..5, k \in 1..6 }

DrawOf(e, t, x) ==
    [template |-> x.template,
     topic |-> x.topic,
     base_engagement |-> e.base_engagement,
     extra |-> e.extra,
     retweet_rate |-> e.retweet_rate,
     reply_rate |-> e.reply_rate,
     view_factor |-> e.view_factor,
     days_ago |-> t.days_ago,
     hours_ago |-> t.hours_ago]

\* the numbers of a tweet depend neither on the username nor on the text,
\* and the text on no number: every engagement and time draw for one
\* username and text, and every username and text draw with one set of
\* numbers
TweetCalls ==
    { [username |-> <<"a">>, draws |-> DrawOf(e, t, DrawAt(0, 0))] :
          e \in EngagementDraws, t \in TimeDraws }
        \cup { [username |-> u, draws |-> DrawOf(DrawAt(0, 0), DrawAt(0, 0), x)] :
                   u \in GenNames, x \in TextDraws }

\* lines 165-223: one call of _generate_sample_user_data
CallGenerateSampleUserData(username, d) ==
    /\ gen = None
    /\ gen' = [call |-> "user_data", username |-> username, draws |-> d,
               out |-> UserData(username, d)]
    /\ UNCHANGED scrapeVars
    /\ UNCHANGED pdfVars
    /\ UNCHANGED flowVars

\* lines 91-163: one call of _generate_sample_tweets
CallGenerateSampleTweets(username, count, d) ==
    /\ gen = None
    /\ gen' = [call |-> "tweets", username |-> username, count |-> count,
               draws |-> d, now |-> clock,
               out |-> SampleTweets(username, count, d, clock)]
    /\ UNCHANGED scrapeVars
    /\ UNCHANGED pdfVars
    /\ UNCHANGED flowVars

NextGen ==
    \/ Tick
    \/ gen = None /\ \E username \in GenNames, d \in UserDraws :
                          CallGenerateSampleUserData(username, d)
    \/ gen = None /\ \E c \in TweetCalls, count \in 0..MaxGenCount :
                          CallGenerateSampleTweets(c.username, count, c.draws)

SpecGen == Init /\ [][NextGen]_vars

(***************************************************************************)
(* The report built from the aggregator's output.  Both tool modules are   *)
(* imported before a tool runs (crew.py lines 15-21); the object _run      *)
(* returned, written by json.dumps and read back, is the data of one       *)
(* PDFWriterTool._run call.                                                *)
(***************************************************************************)
\* lines 331 and 337-341: the returned object as a mapping.  Keys, order,
\* integers, booleans and None come back as they were written; the results
\* object has the keys scrape_metadata, users and summary, the error object
\* neither 'users' nor 'summary'.
ReportData(res) ==
    IF res.kind = "results"
    THEN [type |-> "dict",
          summary |-> res.summary,
          users |-> [type |-> "dict", kv |-> res.users],
          extra |-> TRUE]
    ELSE [type |-> "dict", summary |-> Absent, users |-> Absent, extra |-> TRUE]

KnownName == <<"e", "l", "o", "n", "m", "u", "s", "k">>

PipelineNames == {<<"a">>, KnownName}

PipelineInputs == {ListInput(l) : l \in SeqsUpTo(PipelineNames, MaxUsers)}

PipelineFilenames ==
    { [kind |-> "none", segs |-> <<>>],
      [kind |-> "str", segs |-> <<Seg("r", "pdf")>>] }

RunOnScrape(output_filename, env) ==
    /\ pc = "done"
    /\ Run(ReportData(result), output_filename, env)

NextPipeline ==
    \/ \E importable \in BOOLEAN : LoadModule(importable)
    \/ pc = "idle" /\ pdf_pc = "idle" /\
           \E u \in PipelineInputs, n \in TweetCounts : Call(u, n)
    \/ pc = "loop" /\ \E fault \in Faults, rnd \in 0..MaxRnd : ProcessUser(fault, rnd)
    \/ Finish
    \/ pc = "done" /\ pdf_pc = "idle" /\
           \E fn \in PipelineFilenames, env \in Envs(REPORTLAB_AVAILABLE) :
               RunOnScrape(fn, env)

SpecPipeline == Init /\ [][NextPipeline]_vars

(***************************************************************************)
(* crew.py and main.py: process start, the crew and the flow.  An          *)
(* environment variable that is not set has the value Unset (os.getenv     *)
(* gives None).                                                            *)
(***************************************************************************)
Truthy(v) == v \notin {Unset, ""}

Getenv(e, name, default) == IF e[name] = Unset THEN default ELSE e[name]

Environments ==
    [PROVIDER : {Unset, "groq", "openai"},
     GROQ_API_KEY : {Unset, "gk"},
     OPENAI_API_KEY : {Unset, "ok"},
     MODEL : {Unset, ""},
     OPENAI_MODEL : {Unset}]

\* crew.py lines 42-49, main.py lines 22-29
Provider(e) == Getenv(e, "PROVIDER", "groq")

ApiKey(e) == IF Provider(e) = "openai" THEN e.OPENAI_API_KEY ELSE e.GROQ_API_KEY

ModelName(e) ==
    IF Provider(e) = "openai"
    THEN Getenv(e, "OPENAI_MODEL", "gpt-4o-mini")
    ELSE Getenv(e, "MODEL", "llama-3.1-8b-instant")

\* crew.py lines 51-52, main.py lines 31-32
StartupRaises(e) == ~Truthy(ApiKey(e)) \/ ~Truthy(ModelName(e))

Thing(kind, name) == [kind |-> kind, name |-> name]

\* pdf_write.py lines 57-75: what PDFWriterTool() creates besides itself
ToolDirs ==
    {Thing("dir", "outputs"), Thing("dir", "outputs/reports"),
     Thing("dir", "outputs/charts")}

\* main.py lines 55-59
FlowDirs ==
    {Thing("dir", "outputs"), Thing("dir", "outputs/json"),
     Thing("dir", "outputs/reports"), Thing("dir", "outputs/charts")}

\* main.py lines 35-37
LogDir == Thing("dir", "logs/run_<ts>")

\* crew.py lines 103-165: the four agents; a tool whose construction raises
\* leaves its agent without tools
XDataCollector(toolFault) ==
    [name |-> "x_data_collector",
     tools |-> IF toolFault = "scraper" THEN <<>> ELSE <<"scrape_x_tool">>]

SentimentAnalyzer == [name |-> "sentiment_analyzer", tools |-> <<>>]

OutputStructurer == [name |-> "output_structurer", tools |-> <<>>]

ReportGenerator(toolFault) ==
    [name |-> "report_generator",
     tools |-> IF toolFault = "pdf" THEN <<>> ELSE <<"pdf_writer_tool">>]

\* crew.py lines 170-220: the four tasks, each with its agent and its context
ScrapeTweetsTask ==
    [name |-> "scrape_tweets_task", agent |-> "x_data_collector", context |-> <<>>]

AnalyzeSentimentTask ==
    [name |-> "analyze_sentiment_task", agent |-> "sentiment_analyzer",
     context |-> <<"scrape_tweets_task">>]

StructureOutputTask ==
    [name |-> "structure_output_task", agent |-> "output_structurer",
     context |-> <<"scrape_tweets_task", "analyze_sentiment_task">>]

GenerateReportTask ==
    [name |-> "generate_report_task", agent |-> "report_generator",
     context |-> <<"scrape_tweets_task", "analyze_sentiment_task",
                   "structure_output_task">>]

\* crew.py lines 81-86
CrewAgents(toolFault) ==
    <<XDataCollector(toolFault), SentimentAnalyzer, OutputStructurer,
      ReportGenerator(toolFault)>>

CrewTasksReportFirst ==
    <<GenerateReportTask, ScrapeTweetsTask, AnalyzeSentimentTask, StructureOutputTask>>

\* crew.py lines 87-92
CrewTasks ==
    <<ScrapeTweetsTask, AnalyzeSentimentTask, StructureOutputTask, GenerateReportTask>>

\* what the k-th constructor call of __init__ creates (lines 81-92): the
\* agents in order, then the tasks in order
CreatedAt(k, toolFault) ==
    IF k <= 4
    THEN {Thing("agent", CrewAgents(toolFault)[k].name)}
             \cup {Thing("tool", t) : t \in Range(CrewAgents(toolFault)[k].tools)}
             \cup (IF k = 4 /\ toolFault # "pdf" THEN ToolDirs ELSE {})
    ELSE {Thing("task", CrewTasks[k - 4].name)}

CreatedBefore(k, toolFault) == UNION {CreatedAt(j, toolFault) : j \in 1..(k - 1)}

ToolFaults == {"none", "scraper", "pdf"}

\* the constructor call of __init__ that raises: none, or the second agent
ConstructFaults == {0, 2}

\* crew.py lines 65-92: SentimentXAnalysis(api_key, model, provider=...)
SentimentXAnalysisInit(api_key, model, e, toolFault, raisesAt) ==
    LET key == IF Truthy(api_key) THEN api_key ELSE ApiKey(e)
    IN  IF ~Truthy(key)
        THEN [ok |-> FALSE, error |-> "ValueError", created |-> {}]
        ELSE IF raisesAt # 0
        THEN [ok |-> FALSE, error |-> "Exception",
              created |-> CreatedBefore(raisesAt, toolFault)]
        ELSE [ok |-> TRUE, error |-> "none",
              created |-> CreatedBefore(9, toolFault),
              obj |-> [provider |-> Provider(e),
                       api_key |-> key,
                       model |-> IF Truthy(model) THEN model ELSE ModelName(e),
                       agents |-> CrewAgents(toolFault),
                       tasks |-> CrewTasks]]

\* crew.py lines 225-234
Crew(obj) == [agents |-> obj.agents, tasks |-> obj.tasks, process |-> "sequential"]

\* main.py line 85
ResultsFile(now) ==
    <<Seg("outputs", ""), Seg("json", ""),
      [base |-> "analysis_results_", ts |-> now, ext |-> "json"]>>

\* main.py lines 61-74
InitializeCrew(f, e, toolFault, raisesAt) ==
    LET r == SentimentXAnalysisInit(ApiKey(e), ModelName(e), e, toolFault, raisesAt)
    IN  [flow |-> IF r.ok THEN [crew_instance |-> r.obj] ELSE f,
         status |-> IF r.ok THEN "initialized" ELSE "error",
         created |-> r.created]

\* what the kickoff of a call came to: the crew could not be built, a task
\* raised, the results file could not be written, or all went well
Outcomes == {"ok", "crew", "task3", "write"}

TasksRun(outcome) ==
    IF outcome = "task1" THEN 0
    ELSE IF outcome = "task2" THEN 1
    ELSE IF outcome = "task3" THEN 2
    ELSE IF outcome = "task4" THEN 3
    ELSE 4

\* main.py line 78
CrewMissing(f) == f.crew_instance = None

\* main.py lines 76-92
ExecuteAnalysis(f, outcome, now) ==
    IF CrewMissing(f)
    THEN [status |-> "error", error |-> "Crew not initialized",
          kickoff |-> None, wrote |-> {}, created |-> {}]
    ELSE IF f.crew_instance = None \/ outcome = "crew"
    THEN [status |-> "error", error |-> "Exception",
          kickoff |-> None, wrote |-> {}, created |-> {}]
    ELSE [status |-> IF outcome = "ok" THEN "completed" ELSE "error",
          error |-> IF outcome = "ok" THEN "none" ELSE "Exception",
          kickoff |-> [crew |-> Crew(f.crew_instance), ran |-> TasksRun(outcome)],
          wrote |-> IF outcome = "ok" THEN {Resolve(ResultsFile(now))} ELSE {},
          created |-> {Thing("crew", "SentimentXAnalysis")}]

\* main.py lines 94-108
GenerateSummary(analysis_result) == [final_status |-> analysis_result.status]

ProceedsAlways(init_result) == TRUE

\* main.py line 117
Proceeds(init_result) == init_result.status = "initialized"

\* main.py lines 111-125
RunFlow(e, toolFault, raisesAt, outcome, now) ==
    LET init_result == InitializeCrew([crew_instance |-> None], e, toolFault, raisesAt)
        analysis_result == ExecuteAnalysis(init_result.flow, outcome, now)
    IN  IF ~Proceeds(init_result)
        THEN [status |-> "error", stage |-> "initialization",
              init_status |-> init_result.status, executed |-> FALSE,
              kickoff |-> None, wrote |-> {},
              created |-> FlowDirs \cup init_result.created]
        ELSE [status |-> GenerateSummary(analysis_result).final_status,
              stage |-> "finished",
              init_status |-> init_result.status, executed |-> TRUE,
              kickoff |-> analysis_result.kickoff, wrote |-> analysis_result.wrote,
              created |-> FlowDirs \cup init_result.created
                              \cup analysis_result.created]

Entry(op, status, stage, init_status, had_crew, executed, r) ==
    [op |-> op, status |-> status, stage |-> stage, init_status |-> init_status,
     had_crew |-> had_crew, executed |-> executed,
     kickoff |-> r.kickoff # None, wrote |-> r.wrote # {}]

\* crew.py lines 15-21: importing the tool modules runs pdf_write.py, which
\* sets its flag (lines 19-35) and builds PDFReportTool (line 534)
ImportTools(importable) ==
    /\ proc = "start"
    /\ proc' = "tools"
    /\ pdf_pc = "unloaded"
    /\ pdf_pc' = "idle"
    /\ REPORTLAB_AVAILABLE' = importable
    /\ created' = created \cup {Thing("tool", "PDFReportTool")} \cup ToolDirs
    /\ UNCHANGED <<os_env, raised, flow, kickoff, log>>
    /\ UNCHANGED <<clock, fs, build>>
    /\ UNCHANGED scrapeVars
    /\ UNCHANGED genVars

\* crew.py lines 36-52: the configuration is loaded, the environment is
\* read, and a falsy key or model name raises
LoadCrewModule(e) ==
    /\ proc = "tools"
    /\ os_env' = e
    /\ IF StartupRaises(e)
       THEN proc' = "exited" /\ raised' = "ValueError"
       ELSE proc' = "crew" /\ UNCHANGED raised
    /\ UNCHANGED <<created, flow, kickoff, log>>
    /\ UNCHANGED pdfVars
    /\ UNCHANGED scrapeVars
    /\ UNCHANGED genVars

\* main.py lines 21-49: the same test, then the log directory
MainStartup ==
    /\ proc = "crew"
    /\ IF StartupRaises(os_env)
       THEN proc' = "exited" /\ raised' = "ValueError" /\ UNCHANGED created
       ELSE proc' = "ready" /\ created' = created \cup {LogDir} /\ UNCHANGED raised
    /\ UNCHANGED <<os_env, flow, kickoff, log>>
    /\ UNCHANGED pdfVars
    /\ UNCHANGED scrapeVars
    /\ UNCHANGED genVars

\* main.py lines 55-59: SentimentAnalysisFlow()
NewFlow ==
    /\ proc = "ready"
    /\ flow = None
    /\ flow' = [crew_instance |-> None]
    /\ created' = created \cup FlowDirs
    /\ UNCHANGED <<os_env, proc, raised, kickoff, log>>
    /\ UNCHANGED pdfVars
    /\ UNCHANGED scrapeVars
    /\ UNCHANGED genVars

CallInitializeCrew(toolFault, raisesAt) ==
    /\ proc = "ready"
    /\ flow # None
    /\ Len(log) < MaxCalls
    /\ LET r == InitializeCrew(flow, os_env, toolFault, raisesAt)
       IN  /\ flow' = r.flow
           /\ created' = created \cup r.created
           /\ log' = Append(log, Entry("initialize_crew", r.status, "-", r.status,
                                       flow.crew_instance # None, FALSE,
                                       [kickoff |-> None, wrote |-> {}]))
    /\ UNCHANGED <<os_env, proc, raised, kickoff>>
    /\ UNCHANGED pdfVars
    /\ UNCHANGED scrapeVars
    /\ UNCHANGED genVars

CallExecuteAnalysis(outcome) ==
    /\ proc = "ready"
    /\ flow # None
    /\ Len(log) < MaxCalls
    /\ LET r == ExecuteAnalysis(flow, outcome, clock)
       IN  /\ kickoff' = IF r.kickoff = None THEN kickoff ELSE r.kickoff
           /\ fs' = WriteFiles(fs, r.wrote)
           /\ created' = created \cup r.created
           /\ log' = Append(log, Entry("execute_analysis", r.status, "-", "-",
                                       flow.crew_instance # None, TRUE, r))
    /\ UNCHANGED <<os_env, proc, raised, flow>>
    /\ UNCHANGED <<pdf_pc, REPORTLAB_AVAILABLE, clock, build>>
    /\ UNCHANGED scrapeVars
    /\ UNCHANGED genVars

CallRunFlow(toolFault, raisesAt, outcome) ==
    /\ proc = "ready"
    /\ Len(log) < MaxCalls
    /\ LET r == RunFlow(os_env, toolFault, raisesAt, outcome, clock)
       IN  /\ kickoff' = IF r.kickoff = None THEN kickoff ELSE r.kickoff
           /\ fs' = WriteFiles(fs, r.wrote)
           /\ created' = created \cup r.created
           /\ log' = Append(log, Entry("run_flow", r.status, r.stage, r.init_status,
                                       FALSE, r.executed, r))
    /\ UNCHANGED <<os_env, proc, raised, flow>>
    /\ UNCHANGED <<pdf_pc, REPORTLAB_AVAILABLE, clock, build>>
    /\ UNCHANGED scrapeVars
    /\ UNCHANGED genVars

NextFlow ==
    \/ \E importable \in BOOLEAN : ImportTools(importable)
    \/ proc = "tools" /\ \E e \in Environments : LoadCrewModule(e)
    \/ MainStartup
    \/ NewFlow
    \/ proc = "ready" /\ \E toolFault \in ToolFaults, raisesAt \in ConstructFaults :
                             CallInitializeCrew(toolFault, raisesAt)
    \/ proc = "ready" /\ \E outcome \in Outcomes : CallExecuteAnalysis(outcome)
    \/ proc = "ready" /\
           \E toolFault \in ToolFaults, raisesAt \in ConstructFaults, outcome \in Outcomes :
               CallRunFlow(toolFault, raisesAt, outcome)

SpecFlow == Init /\ [][NextFlow]_vars

(***************************************************************************)
(* Properties of ScrapeXTool._run.                                         *)
(***************************************************************************)
Returned == pc = "done" /\ result.kind = "results"

ListGiven == pc # "idle" /\ usernames.kind \in {"str", "list"}

\* C1 as stated: for every non-empty list of requested usernames _run
\* returns a 'users' mapping with as many entries as usernames were
\* requested, one for each, and successful_scrapes + failed_scrapes is the
\* number of requested usernames; repeated usernames included.
C1_OneEntryPerRequested ==
    (pc = "done" /\ ListGiven /\ username_list # <<>>) =>
        /\ result.kind = "results"
        /\ Keys(result.users) = Range(username_list)
        /\ Len(result.users) = Len(username_list)
        /\ result.summary.successful_scrapes + result.summary.failed_scrapes
               = Len(username_list)

\* C1 as amended: for every non-empty list of requested usernames _run
\* returns a 'users' mapping with exactly one entry for each distinct
\* username of the list, and successful_scrapes + failed_scrapes is the
\* number of requested usernames, repeats counted.
C1_OneEntryPerDistinct ==
    (pc = "done" /\ ListGiven /\ username_list # <<>>) =>
        /\ result.kind = "results"
        /\ Keys(result.users) = Range(username_list)
        /\ Len(result.users) = Cardinality(Range(username_list))
        /\ result.summary.successful_scrapes + result.summary.failed_scrapes
               = Len(username_list)

C1_Witness ==
    /\ Returned
    /\ Len(username_list) = 2
    /\ username_list[1] = username_list[2]
    /\ Len(result.users) = 1

\* one iteration of the loop, as C2 wants it
C2_StepIsolated ==
    (pc = "loop" /\ idx <= Len(username_list)) =>
        /\ pc' = "loop"
        /\ idx' = idx + 1
        /\ \A k \in Keys(users) \ {username_list[idx]} :
               k \in Keys(users') /\ Lookup(users', k) = Lookup(users, k)
        /\ outcomes'[idx] # "none" =>
               Lookup(users', username_list[idx]) = FailureEntry(outcomes'[idx])

\* C2: a failure while one username is processed stores the failure entry
\* {user_info: None, tweets: [], tweet_count: 0, scrape_success: False,
\* error} for that username, leaves the entry of every other username as it
\* was, and the loop goes on to the next username; when _run returns, every
\* username of the list has been processed.
C2_PerUsernameIsolation ==
    /\ [][C2_StepIsolated]_vars
    /\ []((pc = "done" /\ ListGiven) =>
              Len(outcomes) = Len(username_list) /\ result.kind = "results")

C2_Witness ==
    /\ Returned
    /\ Len(username_list) = 2
    /\ username_list[1] # username_list[2]
    /\ outcomes = <<"tweets", "none">>
    /\ Lookup(result.users, username_list[1]) = FailureEntry("tweets")
    /\ Lookup(result.users, username_list[2]).scrape_success

\* C5: success_rate is successful_scrapes / number of requested usernames
\* and 0 for an empty list; average_tweets_per_user is
\* total_tweets_collected / successful_scrapes and 0 when nothing
\* succeeded; no division by zero reaches the outer handler.
C5_SummaryRatios ==
    (pc = "done" /\ ListGiven) =>
        /\ result.kind = "results"
        /\ LET s == result.summary
               n == Len(username_list)
           IN  /\ n = 0 => s.success_rate = Zero
               /\ n > 0 => s.success_rate = [num |-> s.successful_scrapes, den |-> n]
               /\ s.successful_scrapes = 0 => s.average_tweets_per_user = Zero
               /\ s.successful_scrapes > 0 =>
                      s.average_tweets_per_user =
                          [num |-> s.total_tweets_collected,
                           den |-> s.successful_scrapes]

C5_Witness ==
    /\ Returned
    /\ usernames.kind = "list"
    /\ username_list = <<>>
    /\ result.summary.success_rate = Zero
    /\ result.summary.average_tweets_per_user = Zero

\* C6: in every success entry the 'tweets' list has min(generated, 10)
\* elements, 'tweet_count' is that length, and every element is a generated
\* tweet reduced to its text cut to at most 50 characters and its likes.
C6_TruncatedTweets ==
    pc # "idle" =>
        \A i \in 1..Len(users) :
            LET e == users[i].val
                generated == Max(tweet_count, 0)
            IN  e.scrape_success =>
                    /\ Len(e.tweets) = Min(generated, TweetCap)
                    /\ e.tweet_count = Len(e.tweets)
                    /\ \E rnd \in 0..MaxRnd :
                           LET g == GenerateSampleTweets(users[i].key, tweet_count, rnd)
                           IN  \A j \in 1..Len(e.tweets) :
                                   /\ DOMAIN e.tweets[j] = {"text", "likes"}
                                   /\ e.tweets[j].likes = g[j].likes
                                   /\ e.tweets[j].text.tpl = g[j].text.tpl
                                   /\ e.tweets[j].text.topic = g[j].text.topic
                                   /\ e.tweets[j].text.len = Min(g[j].text.len, TextCap)

C6_Witness ==
    /\ Returned
    /\ tweet_count = TweetCap + 1
    /\ \E i \in 1..Len(result.users) :
           /\ result.users[i].val.scrape_success
           /\ Len(result.users[i].val.tweets) = TweetCap
           /\ result.users[i].val.tweet_count = TweetCap

Count(s, c) == Cardinality({i \in 1..Len(s) : s[i] = c})

Trimmed(s) == s = <<>> \/ (s[1] # " " /\ s[Len(s)] # " ")

Pieces == IF usernames.kind = "str" THEN Split(usernames.chars) ELSE usernames.items

\* C7 as stated: given as a list or as a comma-separated string, every key
\* of 'users' has no surrounding whitespace and its leading '@' stripped,
\* and only the leading one.
C7_TrimmedLeadingAtStripped ==
    ListGiven =>
        /\ Len(username_list) = Len(Pieces)
        /\ \A i \in 1..Len(username_list) :
               LET k == username_list[i]
                   p == Strip(Pieces[i])
               IN  /\ Trimmed(k)
                   /\ k = IF p # <<>> /\ p[1] = "@" THEN Tail(p) ELSE p
        /\ Keys(users) \subseteq Range(username_list)

FirstInk(p) == CHOOSE i \in 1..Len(p) : p[i] # " " /\ \A j \in 1..(i - 1) : p[j] = " "

LastInk(p) == CHOOSE i \in 1..Len(p) : p[i] # " " /\ \A j \in (i + 1)..Len(p) : p[j] = " "

Blank(p) == \A i \in 1..Len(p) : p[i] = " "

\* C7 as amended: a comma-separated string is cut at the commas, each piece
\* loses its surrounding whitespace and then every '@' it holds, not only a
\* leading one (whitespace next to a removed '@' stays); the elements of a
\* list are used as keys unchanged.
C7_Normalization ==
    ListGiven =>
        /\ Len(username_list) = Len(Pieces)
        /\ Keys(users) \subseteq Range(username_list)
        /\ usernames.kind = "list" => username_list = usernames.items
        /\ usernames.kind = "str" =>
               /\ Len(username_list) = Count(usernames.chars, ",") + 1
               /\ \A i \in 1..Len(username_list) :
                      LET k == username_list[i]
                          p == Pieces[i]
                      IN  /\ Count(k, "@") = 0
                          /\ Count(k, ",") = 0
                          /\ Blank(p) => k = <<>>
                          /\ ~Blank(p) =>
                                 k = SelectSeq(SubSeq(p, FirstInk(p), LastInk(p)), IsNotAt)

C7_Witness ==
    /\ Returned
    /\ usernames.kind = "str"
    /\ usernames.chars = <<"a", "@", "a">>
    /\ Keys(result.users) = {<<"a", "a">>}

\* C20: _run never lets an exception reach its caller: for a string, a
\* list or any other usernames value, every tweet_count and every failure
\* of a step, a started call ends by returning an object, and a failure of
\* the whole batch is returned as an object with 'error', 'timestamp' and
\* success = false.
C20_AlwaysReturnsJson ==
    /\ pc \in {"idle", "loop", "done"}
    /\ pc = "loop" => (idx <= Len(username_list) \/ ENABLED Finish)
    /\ pc = "done" =>
           /\ result # None
           /\ result.kind \in {"results", "error"}
           /\ usernames.kind \notin {"str", "list"} => result.kind = "error"
           /\ result.kind = "error" =>
                  /\ {"error", "timestamp", "success"} \subseteq DOMAIN result
                  /\ result.success = FALSE
           /\ result.kind = "results" =>
                  {"scrape_metadata", "users", "summary"} \subseteq DOMAIN result

C20_Witness ==
    /\ pc = "done"
    /\ usernames = OtherInput
    /\ result.kind = "error"
    /\ result.error = "TypeError"
    /\ result.success = FALSE

\* C21: between the processing of any two consecutive usernames of the list
\* a pause has taken place, whether the earlier username succeeded or
\* failed: when the loop reaches the username at position idx > 1, idx - 1
\* pauses have been completed.
C21_PauseBetweenUsernames ==
    (pc = "loop" /\ 1 < idx /\ idx <= Len(username_list)) => delays = idx - 1

CountEntries(u, flag) ==
    Cardinality({i \in 1..Len(u) : u[i].val.scrape_success = flag})

\* C25: in a returned result with a summary, successful_scrapes is the
\* number of entries of 'users' whose scrape_success is true and
\* failed_scrapes the number whose scrape_success is false, for every list
\* and every pattern of per-username failures.
C25_SummaryCountsMatchEntries ==
    Returned =>
        /\ result.summary.successful_scrapes = CountEntries(result.users, TRUE)
        /\ result.summary.failed_scrapes = CountEntries(result.users, FALSE)

RECURSIVE SumTweetCounts(_)
SumTweetCounts(u) ==
    IF u = <<>> THEN 0 ELSE Head(u).val.tweet_count + SumTweetCounts(Tail(u))

\* the summary counts every generated tweet of every counted username
TotalIsGenerated ==
    result.summary.total_tweets_collected =
        result.summary.successful_scrapes * Max(tweet_count, 0)

\* C26 as stated: total_tweets_collected is successful_scrapes *
\* max(tweet_count, 0); average_tweets_per_user is the requested tweet_count
\* whenever a username succeeded; the total exceeds the sum of the per-user
\* 'tweet_count' fields exactly when tweet_count > 10 and a username
\* succeeded.
C26_AverageIsRequestedCount ==
    Returned =>
        LET s == result.summary
        IN  /\ TotalIsGenerated
            /\ s.successful_scrapes > 0 =>
                   s.average_tweets_per_user.num =
                       tweet_count * s.average_tweets_per_user.den
            /\ (s.total_tweets_collected > SumTweetCounts(result.users))
                   <=> (tweet_count > TweetCap /\ s.successful_scrapes > 0)

\* C26 as amended: total_tweets_collected is successful_scrapes *
\* max(tweet_count, 0), the tweets generated and not the truncated lists;
\* average_tweets_per_user is max(tweet_count, 0) whenever successful_scrapes
\* is positive; the total exceeds the sum of the per-user 'tweet_count'
\* fields whenever tweet_count > 10 and successful_scrapes is positive, and
\* for a tweet_count of 1 to 10 exactly when successful_scrapes is larger
\* than the number of success entries of 'users'.
C26_TotalCountsGenerated ==
    Returned =>
        LET s == result.summary
            generated == Max(tweet_count, 0)
        IN  /\ TotalIsGenerated
            /\ s.successful_scrapes > 0 =>
                   s.average_tweets_per_user.num =
                       generated * s.average_tweets_per_user.den
            /\ (s.total_tweets_collected > SumTweetCounts(result.users))
                   <=> \/ tweet_count > TweetCap /\ s.successful_scrapes > 0
                       \/ /\ generated >= 1
                          /\ s.successful_scrapes > CountEntries(result.users, TRUE)

C26_Witness ==
    /\ Returned
    /\ tweet_count = TweetCap + 1
    /\ outcomes = <<"none">>
    /\ result.summary.total_tweets_collected = TweetCap + 1
    /\ SumTweetCounts(result.users) = TweetCap
    /\ result.summary.average_tweets_per_user = [num |-> TweetCap + 1, den |-> 1]

(***************************************************************************)
(* Properties of PDFWriterTool._run.                                       *)
(***************************************************************************)
Built == pdf_pc = "returned"

NotAMapping(data) == data.type # "dict"

EmptyMapping(data) ==
    data.type = "dict" /\ data.summary = Absent /\ data.users = Absent /\ ~data.extra

BackendsInvoked == [i \in 1..Len(build.backends) |-> build.backends[i].backend]

ChartCalls == IF build.backends = <<>> THEN <<>> ELSE build.backends[1].charts

\* C3: no call of PDFWriterTool._run lets an exception escape, whatever data
\* and output_filename are: every call returns a string.
C3_NeverRaises == Built => (build.raised = "none" /\ build.returned # None)

\* one call with invalid data, as C4 wants it
C4_InvalidStep ==
    (pdf_pc = "idle" /\ pdf_pc' = "returned"
        /\ (NotAMapping(build'.call.data) \/ EmptyMapping(build'.call.data))) =>
        /\ build'.returned = Message("invalid", <<>>)
        /\ build'.raised = "none"
        /\ build'.backends = <<>>
        /\ build'.wrote = {}
        /\ fs' = fs

\* C4: called with an empty mapping or with a value that is no mapping,
\* _run returns the error string, invokes no backend and no chart renderer,
\* and leaves every file as it was.
C4_InvalidInputNoWrite == [][C4_InvalidStep]_vars

C4_Witness ==
    /\ Built
    /\ EmptyMapping(build.call.data)
    /\ build.returned.kind = "invalid"
    /\ fs = StaleFiles

\* C8: both backends call the chart renderer: every build that completes
\* has called _create_sentiment_chart and _create_financial_chart, and a
\* chart that is unavailable is left out of the report.
C8_BothBackendsCallCharts ==
    (Built /\ build.backends # <<>> /\ build.backends[1].ok) =>
        /\ Len(ChartCalls) = 2
        /\ ChartCalls[1].chart = "sentiment"
        /\ ChartCalls[2].chart = "financial"
        /\ \A i \in 1..2 :
               ChartCalls[i].result = None =>
                   Page(ChartCalls[i].chart) \notin Range(build.backends[1].pages)

\* C9: a failure inside _create_sentiment_chart or _create_financial_chart
\* is returned as None and never raised; the build goes on without that
\* chart (the next chart is still requested, the page is left out, no image
\* is written) and fails only for a reason of its own.
C9_ChartFailureIsolated ==
    (Built /\ build.backends # <<>>) =>
        LET b == build.backends[1]
        IN  /\ \A i \in 1..Len(b.charts) :
                   /\ ~ChartRaised(b.charts[i].result)
                   /\ b.charts[i].result = None =>
                          Page(b.charts[i].chart) \notin Range(b.pages)
                   /\ b.charts[i].result # None =>
                          /\ Page(b.charts[i].chart) \in Range(b.pages)
                          /\ Resolve(b.charts[i].result.path) \in b.wrote
            /\ Len(b.charts) \in {0, 2}
            /\ (Len(b.charts) = 2 /\ ~b.ok) =>
                   \/ build.call.data.users = Malformed
                   \/ \E i \in 1..Len(build.call.data.users.kv) :
                          LET e == build.call.data.users.kv[i].val
                          IN  /\ "scrape_success" \in DOMAIN e
                              /\ e.scrape_success
                              /\ "user_info" \in DOMAIN e
                              /\ e.user_info = None

C9_Witness ==
    /\ Built
    /\ build.backends # <<>>
    /\ build.backends[1].ok
    /\ Len(ChartCalls) = 2
    /\ ChartCalls[1].result = None
    /\ ChartCalls[2].result = None
    /\ build.returned.kind = "success"
    /\ build.backends[1].pages = <<Page("title")>>

\* C10: REPORTLAB_AVAILABLE is set at module load and never changes, and
\* every build that passed input validation invoked exactly one backend:
\* the ReportLab one when the flag is true, the matplotlib one when false.
C10_OneBackendByFlag ==
    /\ [][pdf_pc # "unloaded" => REPORTLAB_AVAILABLE' = REPORTLAB_AVAILABLE]_vars
    /\ []((Built /\ build.validated) =>
              BackendsInvoked =
                  <<IF REPORTLAB_AVAILABLE THEN "reportlab" ELSE "simple">>)

\* C11: _run only maps the selected backend's boolean and the output path
\* to the message: the 'successfully generated' message with the output path
\* if and only if the backend returned true, the failure message with the
\* same path when it returned false.
C11_MessageFromBackendResult ==
    Built =>
        /\ build.returned # None /\ build.returned.kind = "success" =>
               build.backends # <<>>
        /\ build.backends # <<>> =>
               LET b == build.backends[1]
                   fn == build.call.output_filename
                   joined == ReportsDir \o
                                 (IF fn.kind = "str" /\ fn.segs # <<>>
                                  THEN fn.segs
                                  ELSE DefaultFilename(build.call.now))
               IN  /\ Len(build.backends) = 1
                   /\ build.returned.kind = "success" <=> b.ok
                   /\ ~b.ok => build.returned.kind = "failed"
                   /\ build.returned.path = joined

C11_Witness ==
    /\ Built
    /\ build.backends # <<>>
    /\ ~build.backends[1].ok
    /\ build.returned = Message("failed", Append(ReportsDir, Seg("r", "pdf")))

EndsWith(s, suffix) ==
    Len(s) >= Len(suffix) /\ SubSeq(s, Len(s) - Len(suffix) + 1, Len(s)) = suffix

IsDigit(c) == c \in {"0", "1", "2", "3", "4", "5", "6", "7", "8", "9"}

\* report_<YYYYMMDD_HHMMSS>.pdf
MatchesDefaultPattern(name) ==
    /\ Len(name) = 18
    /\ name[1] = "report_"
    /\ \A i \in 2..9 : IsDigit(name[i])
    /\ name[10] = "_"
    /\ \A i \in 11..16 : IsDigit(name[i])
    /\ name[17] = "." /\ name[18] = "pdf"

NoFilenameBuild ==
    /\ Built
    /\ build.validated
    /\ \/ build.call.output_filename.kind = "none"
       \/ build.call.output_filename = [kind |-> "str", segs |-> <<>>]

OnDisk(path) == \E f \in fs : f.loc = Resolve(path) /\ f.gen = 1

\* C12 as stated: with no output filename, _run on valid input uses the
\* filename report_<YYYYMMDD_HHMMSS>.pdf and returns a string ending in
\* '.pdf', whether or not the build succeeded; the file at that path exists
\* once the call has returned success.
C12_DefaultFilenameAlwaysPdfString ==
    NoFilenameBuild =>
        /\ build.returned # None
        /\ Len(build.returned.path) = 3
        /\ MatchesDefaultPattern(SegChars(build.returned.path[3]))
        /\ EndsWith(MessageChars(build.returned), <<".", "pdf">>)
        /\ build.returned.kind = "success" => OnDisk(build.returned.path)

\* C12 as amended: with no output filename, _run on input that passes
\* validation builds outputs/reports/report_<YYYYMMDD_HHMMSS>.pdf, the
\* timestamp being the time of the call; when the build succeeds the
\* returned string ends with that path, hence in '.pdf', and the file is on
\* disk; when it fails the returned string is the failure message, which
\* ends in ')'.
C12_DefaultFilename ==
    NoFilenameBuild =>
        /\ build.returned # None
        /\ Len(build.returned.path) = 3
        /\ SubSeq(build.returned.path, 1, 2) = ReportsDir
        /\ MatchesDefaultPattern(SegChars(build.returned.path[3]))
        /\ build.returned.path[3].ts = build.call.now
        /\ build.returned.kind = "success" =>
               /\ EndsWith(MessageChars(build.returned),
                           PathChars(build.returned.path))
               /\ EndsWith(MessageChars(build.returned), <<".", "pdf">>)
               /\ OnDisk(build.returned.path)
        /\ build.returned.kind # "success" =>
               /\ build.returned.kind = "failed"
               /\ EndsWith(MessageChars(build.returned), <<")">>)

C12_Witness ==
    /\ NoFilenameBuild
    /\ build.call.now = 1
    /\ build.returned.kind = "success"
    /\ SegChars(build.returned.path[3]) =
           <<"report_", "2", "0", "2", "6", "0", "1", "0", "1", "_",
             "0", "0", "0", "0", "0", "0", ".", "pdf">>
    /\ OnDisk(build.returned.path)

\* C13: for every output_filename the PDF is written to
\* outputs/reports/<filename>.pdf: the output path is a '.pdf' file located
\* in the outputs/reports directory, and no PDF is written anywhere else.
C13_AlwaysPdfInReportsDir ==
    (Built /\ build.backends # <<>>) =>
        LET loc == Resolve(build.returned.path)
        IN  /\ Len(loc) = 3
            /\ SubSeq(loc, 1, 2) = ReportsDir
            /\ loc[3].ext = "pdf"
            /\ \A w \in build.wrote :
                   w = loc \/ w \in {SentimentChartPath, FinancialChartPath}

IsUserPage(p) == p.page = "user"

RECURSIVE KeysOfSuccessful(_)
KeysOfSuccessful(kv) ==
    IF kv = <<>> THEN <<>>
    ELSE IF "scrape_success" \in DOMAIN Head(kv).val /\ Head(kv).val.scrape_success
    THEN <<Head(kv).key>> \o KeysOfSuccessful(Tail(kv))
    ELSE KeysOfSuccessful(Tail(kv))

\* C14: in both backends the built report holds exactly one per-user section
\* for each entry of data['users'] whose scrape_success is true, in the order
\* of the mapping, and none for an entry whose scrape_success is false or
\* absent.
C14_SectionPerSuccessfulUser ==
    (Built /\ build.backends # <<>> /\ build.backends[1].ok) =>
        LET sections == SelectSeq(build.backends[1].pages, IsUserPage)
            u == build.call.data.users
        IN  /\ u # Malformed
            /\ [i \in 1..Len(sections) |-> sections[i].username] =
                   (IF u = Absent THEN <<>> ELSE KeysOfSuccessful(u.kv))
            /\ \A i \in 1..Len(sections) :
                   \E j \in 1..Len(u.kv) :
                       /\ u.kv[j].key = sections[i].username
                       /\ sections[i].tweets = GetOr(u.kv[j].val, "tweet_count", 0)

C14_Witness ==
    /\ Built
    /\ build.backends # <<>>
    /\ build.backends[1].ok
    /\ build.backends[1].backend = "reportlab"
    /\ "kv" \in DOMAIN build.call.data.users
    /\ Len(build.call.data.users.kv) = 2
    /\ KeysOfSuccessful(build.call.data.users.kv) = <<EntryNames[1], EntryNames[2]>>
    /\ LET sections == SelectSeq(build.backends[1].pages, IsUserPage)
       IN  /\ Len(sections) = 2
           /\ sections[1].username = EntryNames[1]
           /\ sections[2].username = EntryNames[2]

(***************************************************************************)
(* Properties of the sample data generators.                               *)
(***************************************************************************)
GenCalled(call) == gen # None /\ gen.call = call

\* C15 as stated: the known-name profile table has 10 literal entries, one
\* for every known username, and for each of them
\* _generate_sample_user_data returns the literal profile, whatever the
\* random draws (for elonmusk: followers_count 150000000 and verified true).
C15_TenLiteralProfiles ==
    (GenCalled("user_data")
        /\ gen.username \in {TARGET_USERNAMES[i] : i \in 1..Len(TARGET_USERNAMES)}) =>
        /\ Len(user_profiles) = 10
        /\ gen.username \in Keys(user_profiles)
        /\ \A d \in UserDraws : gen.out = UserData(gen.username, d)
        /\ gen.username = TARGET_USERNAMES[1] =>
               gen.out.followers_count = 150000000 /\ gen.out.verified

\* C15 as amended: the profile table has 5 literal entries, the first five
\* of the ten known usernames; for each of them the literal profile is
\* returned whatever the random draws (for elonmusk: followers_count
\* 150000000 and verified true), and every other username, the other five
\* known ones included, gets the drawn profile.
C15_FiveLiteralProfiles ==
    GenCalled("user_data") =>
        /\ Len(user_profiles) = 5
        /\ Keys(user_profiles) = {TARGET_USERNAMES[i] : i \in 1..5}
        /\ gen.username \in Keys(user_profiles) =>
               /\ \A d \in UserDraws : gen.out = UserData(gen.username, d)
               /\ \E i \in 1..Len(user_profiles) :
                      /\ user_profiles[i].key = gen.username
                      /\ gen.out.display_name = user_profiles[i].val.display_name
                      /\ gen.out.bio = user_profiles[i].val.bio
                      /\ gen.out.followers_count = user_profiles[i].val.followers_count
                      /\ gen.out.following_count = user_profiles[i].val.following_count
                      /\ gen.out.tweet_count = user_profiles[i].val.tweet_count
                      /\ gen.out.verified = user_profiles[i].val.verified
        /\ gen.username = TARGET_USERNAMES[1] =>
               gen.out.followers_count = 150000000 /\ gen.out.verified
        /\ gen.username \notin Keys(user_profiles) =>
               /\ gen.out.followers_count = gen.draws.followers_count
               /\ gen.out.verified = gen.draws.verified

C15_Witness ==
    /\ GenCalled("user_data")
    /\ gen.username = TARGET_USERNAMES[1]
    /\ gen.draws.followers_count = 10000
    /\ ~gen.draws.verified
    /\ gen.out.followers_count = 150000000
    /\ gen.out.verified

\* C16: for every username outside the profile table the returned
\* display_name is the title-cased username (same letters; a letter is upper
\* case exactly when it starts the name or follows a character that is no
\* letter), followers_count is in [10000, 1000000], following_count in
\* [100, 5000], tweet_count in [1000, 50000] and verified is a boolean.
C16_FallbackProfileRanges ==
    (GenCalled("user_data") /\ gen.username \notin Keys(user_profiles)) =>
        LET u == gen.username
            name == gen.out.display_name
        IN  /\ Len(name) = Len(u)
            /\ \A i \in 1..Len(u) :
                   /\ Lower(name[i]) = Lower(u[i])
                   /\ IsLetter(name[i]) =>
                          (IsUpper(name[i]) <=> (i = 1 \/ ~IsLetter(u[i - 1])))
            /\ gen.out.followers_count \in 10000..1000000
            /\ gen.out.following_count \in 100..5000
            /\ gen.out.tweet_count \in 1000..50000
            /\ gen.out.verified \in BOOLEAN
            /\ gen.out.username = u

C16_Witness ==
    /\ GenCalled("user_data")
    /\ gen.username = <<"a", "B">>
    /\ gen.out.display_name = <<"A", "b">>
    /\ gen.out.followers_count = 1000000
    /\ gen.out.following_count = 100
    /\ ~gen.out.verified

\* C17: every tweet _generate_sample_tweets produces has likes, retweets,
\* replies and views that are non-negative integers, with
\* retweets <= likes, replies <= likes and views >= likes * 10.
C17_EngagementBounds ==
    GenCalled("tweets") =>
        /\ Len(gen.out) = gen.count
        /\ \A i \in 1..Len(gen.out) :
               LET t == gen.out[i]
               IN  /\ t.likes \in Nat /\ t.retweets \in Nat
                   /\ t.replies \in Nat /\ t.views \in Nat
                   /\ t.retweets <= t.likes
                   /\ t.replies <= t.likes
                   /\ t.views >= t.likes * 10

C17_Witness ==
    /\ GenCalled("tweets")
    /\ gen.count = 2
    /\ gen.out[1].likes = 30000
    /\ gen.out[1].retweets = 9000
    /\ gen.out[1].replies = 1500
    /\ gen.out[1].views = 300000

\* C18: every tweet _generate_sample_tweets produces has a timestamp within
\* the last 30 days: never later than the time of generation and never
\* earlier than 30 days before it.
C18_TimestampWithin30Days ==
    GenCalled("tweets") =>
        \A i \in 1..Len(gen.out) :
            /\ gen.out[i].timestamp <= gen.now
            /\ gen.out[i].timestamp >= gen.now - 30 * 86400

NoTokenStartsWith(chars, mark) ==
    \A i \in 1..Len(chars) : chars[i] = mark => (i > 1 /\ chars[i - 1] # " ")

\* C19: for every username, known or not, and every template and topic
\* choice, the hashtags and the mentions of a generated tweet are empty: no
\* white-space separated token of a generated text begins with '#' or '@'.
C19_NoHashtagsNoMentions ==
    GenCalled("tweets") =>
        \A i \in 1..Len(gen.out) :
            LET t == gen.out[i]
                chars == TextChars(gen.username, t.text.tpl, t.text.topic)
            IN  /\ t.hashtags = <<>>
                /\ t.mentions = <<>>
                /\ t.text.len = Len(chars)
                /\ chars # <<>>
                /\ NoTokenStartsWith(chars, "#")
                /\ NoTokenStartsWith(chars, "@")

C19_Witness ==
    /\ GenCalled("tweets")
    /\ gen.username = TARGET_USERNAMES[9]
    /\ gen.count = 1
    /\ SplitWords(TextChars(gen.username, gen.out[1].text.tpl, gen.out[1].text.topic))
           = << <<"L", "o", "v", "e">>, <<"D", "e", "F", "i">>,
                <<"c", "o", "m", "m", "u", "n", "i", "t", "y">> >>
    /\ gen.out[1].hashtags = <<>>
    /\ gen.out[1].mentions = <<>>

\* C27: within one build there is no fallback between the backends: when
\* REPORTLAB_AVAILABLE is true the only backend invoked is the ReportLab
\* one, and when it returns false nothing of the simple backend happens (no
\* chart is rendered, no file is written) and _run returns the failure
\* message.
C27_NoFallback ==
    (Built /\ REPORTLAB_AVAILABLE /\ build.backends # <<>>) =>
        /\ BackendsInvoked = <<"reportlab">>
        /\ ~build.backends[1].ok =>
               /\ build.returned.kind = "failed"
               /\ ChartCalls = <<>>
               /\ build.wrote = {}
               /\ fs = {f \in fs : f.gen = 0}

C27_Witness ==
    /\ Built
    /\ REPORTLAB_AVAILABLE
    /\ BackendsInvoked = <<"reportlab">>
    /\ ~build.backends[1].ok
    /\ build.call.data.summary = SampleSummary
    /\ build.call.data.users # Malformed
    /\ build.returned.kind = "failed"

(***************************************************************************)
(* Properties of the report built from the aggregator's output.            *)
(***************************************************************************)
UserPages == SelectSeq(build.backends[1].pages, IsUserPage)

\* C28: every success entry _run stores has a user_info with exactly the
\* keys username, display_name and followers_count, also for a username of
\* the profile table whose profile has a bio and a following count; a report
\* built from the returned object has one section for every success entry,
\* and every section shows Following = 0 and Bio = 'N/A'.
C28_ReportShowsDefaults ==
    /\ \A i \in 1..Len(users) :
           users[i].val.scrape_success =>
               DOMAIN users[i].val.user_info =
                   {"username", "display_name", "followers_count"}
    /\ (Built /\ build.backends # <<>> /\ build.backends[1].ok) =>
           /\ build.call.data = ReportData(result)
           /\ result.kind = "results" =>
                  Len(UserPages) = CountEntries(result.users, TRUE)
           /\ \A i \in 1..Len(UserPages) :
                  /\ UserPages[i].following = 0
                  /\ UserPages[i].bio = <<"N/A">>

C28_Witness ==
    /\ Built
    /\ build.backends # <<>>
    /\ build.backends[1].ok
    /\ username_list = <<KnownName>>
    /\ Len(UserPages) = 1
    /\ UserPages[1].username = KnownName
    /\ UserPages[1].display_name = <<"E", "l", "o", "n", " ", "M", "u", "s", "k">>
    /\ UserPages[1].followers = 150000000
    /\ UserPages[1].following = 0
    /\ UserPages[1].bio = <<"N/A">>

(***************************************************************************)
(* Properties of the crew and of the flow.                                 *)
(***************************************************************************)
TaskNames(ts) == [i \in 1..Len(ts) |-> ts[i].name]

FixedOrder ==
    <<"scrape_tweets_task", "analyze_sentiment_task", "structure_output_task",
      "generate_report_task">>

ContextPrecedes(ts) ==
    \A i \in 1..Len(ts) :
        \A c \in Range(ts[i].context) : \E j \in 1..(i - 1) : ts[j].name = c

\* C22: the task list of a constructed crew object, and of every Crew
\* handed to the runtime, is scrape_tweets, analyze_sentiment,
\* structure_output, generate_report in this order, the process is the
\* sequential one, and the context of every task names only tasks that come
\* before it in the list.
C22_TasksInFixedOrder ==
    /\ (flow # None /\ flow.crew_instance # None) =>
           /\ TaskNames(flow.crew_instance.tasks) = FixedOrder
           /\ ContextPrecedes(flow.crew_instance.tasks)
    /\ kickoff # None =>
           /\ kickoff.crew.process = "sequential"
           /\ TaskNames(kickoff.crew.tasks) = FixedOrder
           /\ ContextPrecedes(kickoff.crew.tasks)

C22_Witness ==
    /\ kickoff # None
    /\ kickoff.ran = 4
    /\ kickoff.crew.tasks[4].context =
           <<"scrape_tweets_task", "analyze_sentiment_task", "structure_output_task">>
    /\ \E i \in 1..Len(log) : log[i].status = "completed"

KeyMissing(e) == ~Truthy(ApiKey(e))

\* C23: when the API key of the selected provider is missing, the process
\* ends at start with a ValueError and by then no tool, agent, task, crew or
\* output directory has been created, and neither tool has run.
C23_FailsBeforeAnythingIsCreated ==
    (proc \notin {"start", "tools"} /\ KeyMissing(os_env)) =>
        /\ proc = "exited"
        /\ raised = "ValueError"
        /\ created = {}
        /\ flow = None
        /\ kickoff = None
        /\ pc = "idle"
        /\ pdf_pc # "returned"

InitializedBefore(i) ==
    \E j \in 1..(i - 1) :
        log[j].op = "initialize_crew" /\ log[j].status = "initialized"

OnDiskResults == {f \in fs : f.loc = Resolve(ResultsFile(clock))}

\* C24: a call of execute_analysis invokes the kickoff or writes a results
\* file only if an earlier initialize_crew of the flow returned
\* 'initialized'; with no crew set it returns 'error' and does neither;
\* run_flow whose initialization fails returns 'error' at stage
\* 'initialization' without calling execute_analysis, and run_flow reaches
\* the kickoff only after its initialize_crew returned 'initialized'.
C24_KickoffOnlyAfterInitialized ==
    /\ \A i \in 1..Len(log) :
           /\ log[i].op = "execute_analysis" =>
                  /\ (log[i].kickoff \/ log[i].wrote) => InitializedBefore(i)
                  /\ log[i].had_crew <=> InitializedBefore(i)
                  /\ ~log[i].had_crew =>
                         /\ log[i].status = "error"
                         /\ ~log[i].kickoff
                         /\ ~log[i].wrote
           /\ log[i].op = "run_flow" =>
                  /\ (log[i].kickoff \/ log[i].wrote) =>
                         log[i].init_status = "initialized"
                  /\ log[i].init_status # "initialized" =>
                         /\ log[i].status = "error"
                         /\ log[i].stage = "initialization"
                         /\ ~log[i].executed
                         /\ ~log[i].kickoff
                         /\ ~log[i].wrote
    /\ kickoff # None => \E i \in 1..Len(log) : log[i].kickoff
    /\ OnDiskResults # {} => \E i \in 1..Len(log) : log[i].wrote

C24_Witness ==
    /\ Len(log) = 2
    /\ log[1].op = "initialize_crew"
    /\ log[1].status = "initialized"
    /\ log[2].op = "execute_analysis"
    /\ log[2].had_crew
    /\ log[2].status = "completed"
    /\ log[2].kickoff
    /\ kickoff # None
    /\ kickoff.ran = 4
    /\ OnDiskResults # {}

====
